---- MODULE Spec2Model ----
(***************************************************************************)
(* Model of frappe-js-client: the request executor handleRequest           *)
(* (src/utils/axios.ts), the header assembly getRequestHeaders /           *)
(* getAxiosClient, the FrappeApp constructor and the operations that send  *)
(* requests through the client it builds.                                  *)
(*                                                                         *)
(* JavaScript values are tagged tuples, so that values of different        *)
(* JavaScript types can be compared: <<"string", s>>, <<"number", n>>,     *)
(* <<"undefined">>, <<"null">>, <<"object", f>> with f a function from     *)
(* property names to JavaScript values, and <<"error", e>> for an Error    *)
(* object e raised by the transport or by a callback.                      *)
(***************************************************************************)
EXTENDS Integers, Sequences, FiniteSets, TLC

VARIABLES
    pc,             \* position of the current handleRequest invocation
    opts,           \* its RequestHandlerOptions (errorMessage, transformResponse, config)
    transport,      \* what axios.request settled with
    requests,       \* number of axios.request calls issued so far
    transformCalls, \* number of transformResponse calls made by this invocation
    settlements,    \* the settlements of the promise handleRequest returned, in order
    invocations,    \* number of handleRequest invocations started so far
    env,            \* the execution context: window/document and window.csrf_token
    tok,            \* the value the token supplier returns when invoked now
    hdr,            \* the last evaluation of getRequestHeaders: arguments and result
    app,            \* the FrappeApp, once constructed
    sent,           \* the last request an SDK operation handed to the transport
    op,             \* the SDK operation in progress and the request it issued
    upload,         \* the uploadFile call in progress: form, progress events, callback calls
    calls           \* handleRequest invocations in flight at the same time

execVars == <<pc, opts, transport, requests, transformCalls, settlements, invocations>>
appVars == <<env, tok, hdr, app, sent>>
opVars == <<op, upload, calls>>
vars == <<pc, opts, transport, requests, transformCalls, settlements, invocations,
          env, tok, hdr, app, sent, op, upload, calls>>

(***************************************************************************)
(* Bounds.                                                                 *)
(***************************************************************************)
MaxInvocations == 2
\* the size of the uploaded file, in bytes, and the number of progress events
\* the transport reports during one upload
TotalBytes == 2
MaxEvents == 3
\* the number of handleRequest invocations in flight at the same time
MaxCalls == 2

(***************************************************************************)
(* JavaScript values.                                                      *)
(***************************************************************************)
JUndefined == <<"undefined">>
JNull == <<"null">>
JStr(s) == <<"string", s>>
JNum(n) == <<"number", n>>
JObj(f) == <<"object", f>>
JErr(e) == <<"error", e>>

EmptyObj == [k \in {} |-> JUndefined]

JBool(b) == <<"boolean", b>>

\* objects and Error objects carry properties; the primitives modelled carry none
IsObj(v) == v[1] \in {"object", "error"}

\* v.k : property access. On undefined or null it is a TypeError, which the
\* callers below guard against with ?. or handle as a thrown error.
GetProp(v, k) == IF IsObj(v) /\ k \in DOMAIN v[2] THEN v[2][k] ELSE JUndefined

\* v?.k
OptProp(v, k) == IF v \in {JUndefined, JNull} THEN JUndefined ELSE GetProp(v, k)

\* a ?? b
Coalesce(a, b) == IF a \in {JUndefined, JNull} THEN b ELSE a

\* { ...v } : the own enumerable properties of v; nothing for undefined, null
\* and the empty string.
SpreadProps(v) == IF IsObj(v) THEN v[2] ELSE EmptyObj

(***************************************************************************)
(* The transport (axios.request): responses and failures.                  *)
(***************************************************************************)
\* AxiosResponse: status, statusText and data (the response body)
Response(status, statusText, data) ==
    JObj("status" :> JNum(status) @@ "statusText" :> JStr(statusText) @@ "data" :> data)

\* AxiosError; response is undefined when no response was obtained
AxiosErr(code, response) ==
    JErr("name" :> JStr("AxiosError") @@ "code" :> JStr(code)
         @@ "isAxiosError" :> JBool(TRUE) @@ "response" :> response)

\* an Error that is not an AxiosError
PlainErr(name) == JErr("name" :> JStr(name))

\* isAxiosError(error) of the axios package: an object whose isAxiosError is true
isAxiosError(error) == IsObj(error) /\ GetProp(error, "isAxiosError") = JBool(TRUE)

\* the bodies of the successful responses the model draws from: the
\* {data: T} and {message: T} envelopes, a nested one, and an empty body
SuccessBodies ==
    { JObj("data" :> JStr("doc")),
      JObj("message" :> JStr("pong")),
      JObj("data" :> JObj("message" :> JStr("file"))),
      JObj("message" :> JStr("m") @@ "data" :> JStr("d")),
      JStr("") }

\* optional property of a failure body: absent, or one of the given values
OptField(k, values) == {EmptyObj} \cup { k :> v : v \in values }

\* the bodies of the failure responses the model draws from: every
\* combination of message, exception, exc_type and _server_messages
\* (absent, null where the server may send null, or a string), a body that
\* has its own httpStatus field, and bodies that are not objects
FailureBodies ==
    { JObj(m @@ e @@ t @@ s) :
        m \in OptField("message", {JNull, JStr("not found")}),
        e \in OptField("exception", {JNull, JStr("frappe.ValidationError")}),
        t \in OptField("exc_type", {JStr("DoesNotExistError")}),
        s \in OptField("_server_messages", {JStr("[msg]")}) }
    \cup { JObj("httpStatus" :> JNum(200) @@ "message" :> JStr("not found")),
           JStr(""), JNull, JUndefined }

FailureStatuses == { <<404, "Not Found">>, <<417, "Expectation Failed">> }

\* everything axios.request can settle with: [ok |-> TRUE, response |-> r]
\* or [ok |-> FALSE, error |-> e]
TransportOutcomes ==
    { [ok |-> TRUE, response |-> Response(200, "OK", b), error |-> JUndefined] :
        b \in SuccessBodies }
    \cup { [ok |-> FALSE, response |-> JUndefined,
            error |-> AxiosErr("ERR_BAD_REQUEST", Response(st[1], st[2], b))] :
        st \in FailureStatuses, b \in FailureBodies }
    \cup { [ok |-> FALSE, response |-> JUndefined,
            error |-> AxiosErr("ERR_NETWORK", JUndefined)],
           [ok |-> FALSE, response |-> JUndefined, error |-> PlainErr("TypeError")] }

NoOutcome == [ok |-> FALSE, response |-> JUndefined, error |-> JUndefined]

(***************************************************************************)
(* handleRequest (src/utils/axios.ts).                                     *)
(***************************************************************************)
\* the transformResponse functions callers pass: none (the default), the
\* envelope extractors used by the SDK's operations, and one that throws
Transforms == {"default", "data", "message", "data.message", "throws"}

\* the error a transform raises
TransformError == PlainErr("TransformError")

\* transformResponse(body): [threw |-> FALSE, value |-> v] when it returns v,
\* [threw |-> TRUE, value |-> e] when it throws e
Returned(v) == [threw |-> FALSE, value |-> v]
Threw(e) == [threw |-> TRUE, value |-> e]

ApplyTransform(t, body) ==
    CASE t = "default" -> Returned(body)
      [] t = "data" ->
            IF body \in {JUndefined, JNull} THEN Threw(PlainErr("TypeError"))
            ELSE Returned(GetProp(body, "data"))
      [] t = "message" ->
            IF body \in {JUndefined, JNull} THEN Threw(PlainErr("TypeError"))
            ELSE Returned(GetProp(body, "message"))
      [] t = "data.message" ->
            IF body \in {JUndefined, JNull} \/ GetProp(body, "data") \in {JUndefined, JNull}
            THEN Threw(PlainErr("TypeError"))
            ELSE Returned(GetProp(GetProp(body, "data"), "message"))
      [] t = "throws" -> Threw(TransformError)

DefaultErrorMessage == JStr("An error occurred while processing the request.")

\* the RequestHandlerOptions a caller passes; an option left out is undefined
HandlerOptions ==
    [ errorMessage : {JUndefined, JStr("There was an error while fetching the document.")},
      transformResponse : Transforms,
      config : { [method |-> "GET", url |-> "/api/resource/Task/TASK-001"] } ]

\* no option passed: the value of opts before the first invocation
NoOptions ==
    [ errorMessage |-> JUndefined, transformResponse |-> "default",
      config |-> [method |-> "GET", url |-> "/api/resource/Task/TASK-001"] ]

\* the parameter defaults of handleRequest
errorMessageOf(o) ==
    IF o.errorMessage = JUndefined THEN DefaultErrorMessage ELSE o.errorMessage

\* FrappeErrorOf with the message always the fallback, whatever the body says
FrappeErrorFixedMessage(o, axiosError) ==
    LET response == GetProp(axiosError, "response")
        data == OptProp(response, "data")
    IN  JObj( "httpStatus" :> Coalesce(OptProp(response, "status"), JNum(500))
           @@ "httpStatusText" :> Coalesce(OptProp(response, "statusText"),
                                           JStr("Internal Server Error"))
           @@ "message" :> errorMessageOf(o)
           @@ "exception" :> Coalesce(OptProp(data, "exception"),
                                      Coalesce(OptProp(data, "exc_type"),
                                               JStr("UnknownException")))
           @@ "_server_messages" :> Coalesce(OptProp(data, "_server_messages"), JStr(""))
           @@ SpreadProps(data) )

\* FrappeErrorOf with the exc_type fallback left out
FrappeErrorNoExcType(o, axiosError) ==
    LET response == GetProp(axiosError, "response")
        data == OptProp(response, "data")
    IN  JObj( "httpStatus" :> Coalesce(OptProp(response, "status"), JNum(500))
           @@ "httpStatusText" :> Coalesce(OptProp(response, "statusText"),
                                           JStr("Internal Server Error"))
           @@ "message" :> Coalesce(OptProp(data, "message"), errorMessageOf(o))
           @@ "exception" :> Coalesce(OptProp(data, "exception"), JStr("UnknownException"))
           @@ "_server_messages" :> Coalesce(OptProp(data, "_server_messages"), JStr(""))
           @@ SpreadProps(data) )

\* FrappeErrorOf with the body spread after the explicit fields: the body wins
FrappeErrorSpreadLast(o, axiosError) ==
    LET response == GetProp(axiosError, "response")
        data == OptProp(response, "data")
    IN  JObj( SpreadProps(data)
           @@ "httpStatus" :> Coalesce(OptProp(response, "status"), JNum(500))
           @@ "httpStatusText" :> Coalesce(OptProp(response, "statusText"),
                                           JStr("Internal Server Error"))
           @@ "message" :> Coalesce(OptProp(data, "message"), errorMessageOf(o))
           @@ "exception" :> Coalesce(OptProp(data, "exception"),
                                      Coalesce(OptProp(data, "exc_type"),
                                               JStr("UnknownException")))
           @@ "_server_messages" :> Coalesce(OptProp(data, "_server_messages"), JStr("")) )

\* the object thrown for an AxiosError
FrappeErrorOf(o, axiosError) ==
    LET response == GetProp(axiosError, "response")
        data == OptProp(response, "data")
    IN  JObj( "httpStatus" :> Coalesce(OptProp(response, "status"), JNum(500))
           @@ "httpStatusText" :> Coalesce(OptProp(response, "statusText"),
                                           JStr("Internal Server Error"))
           @@ "message" :> Coalesce(OptProp(data, "message"), errorMessageOf(o))
           @@ "exception" :> Coalesce(OptProp(data, "exception"),
                                      Coalesce(OptProp(data, "exc_type"),
                                               JStr("UnknownException")))
           @@ "_server_messages" :> Coalesce(OptProp(data, "_server_messages"), JStr(""))
           @@ SpreadProps(data) )

\* the catch block without the isAxiosError test: every caught error is
\* turned into a record
handleRequestCatchWrapAll(o, error) == FrappeErrorOf(o, error)

\* the catch block: what handleRequest throws for a caught error
handleRequestCatch(o, error) ==
    IF isAxiosError(error) THEN FrappeErrorOf(o, error) ELSE error

\* the try block returning the raw body instead of the transform's value
handleRequestReturnRaw(response, r) == GetProp(response, "data")

\* the value the try block returns for a response whose transform returned r
handleRequestReturn(response, r) == r.value

Resolved(v) == <<"resolved", v>>
Rejected(v) == <<"rejected", v>>

\* a caller invokes handleRequest: the one axios.request is issued and the
\* function suspends at the await
Invoke(o) ==
    /\ pc \in {"idle", "done"}
    /\ invocations < MaxInvocations
    /\ invocations' = invocations + 1
    /\ opts' = o
    /\ requests' = requests + 1
    /\ transformCalls' = 0
    /\ settlements' = <<>>
    /\ transport' = NoOutcome
    /\ pc' = "awaiting"
    /\ UNCHANGED appVars
    /\ UNCHANGED opVars

\* the transport settles the request
TransportSettles(outcome) ==
    /\ pc = "awaiting"
    /\ transport' = outcome
    /\ pc' = "resumed"
    /\ UNCHANGED <<opts, requests, transformCalls, settlements, invocations>>
    /\ UNCHANGED appVars
    /\ UNCHANGED opVars

\* handleRequest resumes after the await with a response: transform and return
ResumeTry ==
    /\ pc = "resumed"
    /\ transport.ok
    /\ LET r == ApplyTransform(opts.transformResponse, GetProp(transport.response, "data"))
       IN  /\ transformCalls' = transformCalls + 1
           /\ settlements' =
                 Append(settlements,
                        IF r.threw THEN Rejected(handleRequestCatch(opts, r.value))
                        ELSE Resolved(handleRequestReturn(transport.response, r)))
    /\ pc' = "done"
    /\ UNCHANGED <<opts, transport, requests, invocations>>
    /\ UNCHANGED appVars
    /\ UNCHANGED opVars

\* the catch block without its final rethrow: an error that is not an
\* AxiosError falls out of the catch and the promise resolves with undefined
ResumeCatchSwallow ==
    /\ pc = "resumed"
    /\ ~transport.ok
    /\ settlements' =
          Append(settlements,
                 IF isAxiosError(transport.error)
                 THEN Rejected(handleRequestCatch(opts, transport.error))
                 ELSE Resolved(JUndefined))
    /\ pc' = "done"
    /\ UNCHANGED <<opts, transport, requests, transformCalls, invocations>>
    /\ UNCHANGED appVars
    /\ UNCHANGED opVars

\* the catch block issuing the request once more before it gives up
ResumeCatchRetry ==
    /\ pc = "resumed"
    /\ ~transport.ok
    /\ IF requests < invocations + 1
       THEN /\ requests' = requests + 1
            /\ pc' = "awaiting"
            /\ UNCHANGED settlements
       ELSE /\ settlements' =
                  Append(settlements, Rejected(handleRequestCatch(opts, transport.error)))
            /\ pc' = "done"
            /\ UNCHANGED requests
    /\ UNCHANGED <<opts, transport, transformCalls, invocations>>
    /\ UNCHANGED appVars
    /\ UNCHANGED opVars

\* handleRequest resumes after the await with a rejection: the catch block
ResumeCatch ==
    /\ pc = "resumed"
    /\ ~transport.ok
    /\ settlements' = Append(settlements, Rejected(handleRequestCatch(opts, transport.error)))
    /\ pc' = "done"
    /\ UNCHANGED <<opts, transport, requests, transformCalls, invocations>>
    /\ UNCHANGED appVars
    /\ UNCHANGED opVars

(***************************************************************************)
(* Header assembly: getSiteName, getRequestHeaders, getAxiosClient         *)
(* (src/utils/axios.ts).  A header set is a function from header names to  *)
(* strings.                                                                *)
(***************************************************************************)
\* JavaScript truthiness of the values modelled
Truthy(v) == v \notin {JUndefined, JNull, JStr(""), JBool(FALSE), JNum(0)}

\* a token supplier argument: a function object; invoking it yields tok
TokenSupplier == <<"function", "token">>

\* window.location in a browser context
WindowOrigin == "https://test.example.com"
WindowHostname == "test.example.com"

\* new URL(u): the URLs the model draws from, with the origin and hostname the
\* WHATWG parser gives them; ok is FALSE where new URL throws a TypeError
ParseURL(u) ==
    CASE u = "https://test.example.com" ->
            [ok |-> TRUE, origin |-> "https://test.example.com", hostname |-> "test.example.com"]
      [] u = "https://test.example.com/app" ->
            [ok |-> TRUE, origin |-> "https://test.example.com", hostname |-> "test.example.com"]
      [] u = "https://other.example.com" ->
            [ok |-> TRUE, origin |-> "https://other.example.com", hostname |-> "other.example.com"]
      [] OTHER -> [ok |-> FALSE, origin |-> "", hostname |-> ""]

AppURLs == {"https://test.example.com", "https://test.example.com/app",
            "https://other.example.com", "not a url"}

\* the execution contexts: outside a browser, or in a browser whose
\* window.csrf_token is unset, the unrendered placeholder, or a token
Envs ==
    { [browser |-> FALSE, csrf_token |-> JUndefined] }
    \cup { [browser |-> TRUE, csrf_token |-> c] :
             c \in {JUndefined, JStr("{{ csrf_token }}"), JStr("csrf-1")} }

\* the strings the token supplier may return
TokenValues == {"abc", "xyz"}

EmptyHeaders == [k \in {} |-> ""]

\* the customHeaders objects callers pass (undefined when left out)
CustomHeaderSets ==
    { JUndefined,
      JObj(EmptyHeaders),
      JObj("X-Custom" :> "v"),
      JObj("Authorization" :> "Basic dXNlcg=="),
      JObj("Content-Type" :> "text/plain"),
      JObj("Accept" :> "text/html" @@ "X-Frappe-Site-Name" :> "custom.site") }

getSiteName(appURL) ==
    IF ~Truthy(appURL) THEN JUndefined
    ELSE IF ParseURL(appURL[2]).ok THEN JStr(ParseURL(appURL[2]).hostname)
    ELSE JUndefined

\* `${v}` : a value in a template literal
TemplateStr(v) ==
    CASE v[1] = "string" -> v[2]
      [] v = JUndefined -> "undefined"
      [] v = JNull -> "null"

\* SetsAuthorization without the useToken test
SetsAuthorizationNoFlag(useToken, tokenType, token) ==
    Truthy(tokenType) /\ Truthy(token)

\* SetsAuthorization with useToken || tokenType in place of useToken && tokenType
SetsAuthorizationOr(useToken, tokenType, token) ==
    (Truthy(Coalesce(useToken, JBool(FALSE))) \/ Truthy(tokenType)) /\ Truthy(token)

\* the condition under which getRequestHeaders sets headers.Authorization
SetsAuthorization(useToken, tokenType, token) ==
    Truthy(Coalesce(useToken, JBool(FALSE))) /\ Truthy(tokenType) /\ Truthy(token)

\* the two spreads in the opposite order: the defaults win
MergeCustomFirst(headers, customHeaders) ==
    headers @@ SpreadProps(Coalesce(customHeaders, JObj(EmptyHeaders)))

\* ...headers, ...(customHeaders ?? {}): the later spread wins
MergeCustom(headers, customHeaders) ==
    SpreadProps(Coalesce(customHeaders, JObj(EmptyHeaders))) @@ headers

\* getRequestHeaders comparing no origins: in a browser the site name is set
\* for every appURL
getRequestHeadersAnyOrigin(useToken, tokenType, token, appURL, customHeaders) ==
    LET base == "Accept" :> "application/json"
                @@ "Content-Type" :> "application/json; charset=utf-8"
        auth == IF SetsAuthorization(useToken, tokenType, token)
                THEN "Authorization" :> (TemplateStr(tokenType) \o " " \o tok)
                ELSE EmptyHeaders
        siteName == getSiteName(appURL)
        urlThrows == env.browser /\ Truthy(appURL) /\ ~ParseURL(appURL[2]).ok
        site == IF env.browser /\ ~urlThrows
                THEN "X-Frappe-Site-Name" :>
                        (IF Truthy(siteName) THEN siteName[2] ELSE WindowHostname)
                ELSE EmptyHeaders
        csrf == IF env.browser /\ ~urlThrows /\ Truthy(env.csrf_token)
                   /\ env.csrf_token # JStr("{{ csrf_token }}")
                THEN "X-Frappe-CSRF-Token" :> env.csrf_token[2]
                ELSE EmptyHeaders
        assembled == csrf @@ site @@ auth @@ base
    IN  [ threw |-> urlThrows,
          assembled |-> assembled,
          headers |-> IF urlThrows THEN EmptyHeaders
                      ELSE MergeCustom(assembled, customHeaders) ]

\* getRequestHeaders(useToken, tokenType, token, appURL, customHeaders) in the
\* context env with the supplier returning tok: threw tells whether it
\* threw (new URL on an unparseable appURL), assembled is the local
\* `headers` when it returned or threw, headers is the returned header set
getRequestHeaders(useToken, tokenType, token, appURL, customHeaders) ==
    LET base == "Accept" :> "application/json"
                @@ "Content-Type" :> "application/json; charset=utf-8"
        auth == IF SetsAuthorization(useToken, tokenType, token)
                THEN "Authorization" :> (TemplateStr(tokenType) \o " " \o tok)
                ELSE EmptyHeaders
        siteName == getSiteName(appURL)
        urlThrows == env.browser /\ Truthy(appURL) /\ ~ParseURL(appURL[2]).ok
        site == IF env.browser /\ ~urlThrows
                   /\ (~Truthy(appURL) \/ ParseURL(appURL[2]).origin = WindowOrigin)
                THEN "X-Frappe-Site-Name" :>
                        (IF Truthy(siteName) THEN siteName[2] ELSE WindowHostname)
                ELSE EmptyHeaders
        csrf == IF env.browser /\ ~urlThrows /\ Truthy(env.csrf_token)
                   /\ env.csrf_token # JStr("{{ csrf_token }}")
                THEN "X-Frappe-CSRF-Token" :> env.csrf_token[2]
                ELSE EmptyHeaders
        assembled == csrf @@ site @@ auth @@ base
    IN  [ threw |-> urlThrows,
          assembled |-> assembled,
          headers |-> IF urlThrows THEN EmptyHeaders
                      ELSE MergeCustom(assembled, customHeaders) ]

\* getAxiosClient: the configuration handed to axios.create, or threw when
\* getRequestHeaders threw
getAxiosClient(appURL, useToken, token, tokenType, customHeaders) ==
    LET h == getRequestHeaders(useToken, tokenType, token, appURL, customHeaders)
    IN  [ threw |-> h.threw,
          baseURL |-> appURL,
          headers |-> IF h.threw THEN EmptyHeaders
                      ELSE ("Content-Type" :> "application/json; charset=utf-8") @@ h.headers,
          withCredentials |-> TRUE ]

\* the arguments of one getRequestHeaders call
HeaderArgs ==
    [ useToken : {JUndefined, JBool(TRUE), JBool(FALSE)},
      tokenType : {JUndefined, JStr("Bearer"), JStr("token")},
      token : {JUndefined, TokenSupplier},
      appURL : {JUndefined, JStr("")} \cup { JStr(u) : u \in AppURLs },
      customHeaders : CustomHeaderSets ]

NoCall == [called |-> FALSE]

\* the record kept of one getRequestHeaders evaluation
HeaderCall(a) ==
    [ called |-> TRUE, args |-> a, token |-> tok,
      result |-> getRequestHeaders(a.useToken, a.tokenType, a.token, a.appURL,
                                   a.customHeaders) ]

\* a caller about to evaluate getRequestHeaders with the arguments a
PendingCall(a) == [called |-> FALSE, args |-> a]

\* the caller evaluates the exported getRequestHeaders
GetRequestHeadersCall ==
    /\ ~hdr.called
    /\ hdr' = HeaderCall(hdr.args)
    /\ UNCHANGED <<env, tok, app, sent>>
    /\ UNCHANGED execVars
    /\ UNCHANGED opVars

(***************************************************************************)
(* FrappeApp (src/frappe/index.ts) and the requests of its components.     *)
(***************************************************************************)
\* the tokenParams argument of the constructor (undefined when left out)
TokenParamSets ==
    { JUndefined }
    \cup { JObj("useToken" :> JBool(u) @@ "token" :> t @@ "type" :> JStr(ty)) :
             u \in BOOLEAN, t \in {JUndefined, TokenSupplier}, ty \in {"Bearer", "token"} }

NoApp == [constructed |-> FALSE]

\* new FrappeApp(url, tokenParams, name, customHeaders): the fields the
\* constructor assigns; axios is the client getAxiosClient returns
FrappeApp(url, tokenParams, customHeaders) ==
    LET useToken == Coalesce(OptProp(tokenParams, "useToken"), JBool(FALSE))
        token == OptProp(tokenParams, "token")
        tokenType == Coalesce(OptProp(tokenParams, "type"), JStr("Bearer"))
    IN  [ constructed |-> TRUE,
          url |-> url,
          useToken |-> useToken,
          token |-> token,
          tokenType |-> tokenType,
          customHeaders |-> customHeaders,
          axios |-> getAxiosClient(url, useToken, token, tokenType, customHeaders) ]

NoRequest == [component |-> "none"]

\* the components that send their requests with the client's configuration
\* alone: auth(), db(), call() and client() receive app.axios and pass no
\* headers of their own
PlainComponents == {"auth", "db", "call", "client"}

\* axios merges the headers of a request's config over the instance's
RequestHeaders(instanceHeaders, configHeaders) == configHeaders @@ instanceHeaders

\* the headers of a request sent by one of PlainComponents
ComponentRequestHeaders(a) == RequestHeaders(a.axios.headers, EmptyHeaders)

\* the headers option uploadFile passes with its request
uploadFileHeaders(h) == ("Content-Type" :> "multipart/form-data") @@ h.headers

\* the constructor runs; when getAxiosClient throws, no FrappeApp exists
NewFrappeApp(url, tokenParams, customHeaders) ==
    /\ ~app.constructed
    /\ LET a == FrappeApp(url, tokenParams, customHeaders)
       IN  /\ hdr' = HeaderCall([useToken |-> a.useToken, tokenType |-> a.tokenType,
                                 token |-> a.token, appURL |-> a.url,
                                 customHeaders |-> a.customHeaders])
           /\ app' = IF a.axios.threw THEN NoApp ELSE a
    /\ UNCHANGED <<env, tok, sent>>
    /\ UNCHANGED execVars
    /\ UNCHANGED opVars

\* the application stores a new token: the supplier returns it from now on
RefreshToken(v) ==
    /\ v # tok
    /\ tok' = v
    /\ UNCHANGED <<env, hdr, app, sent>>
    /\ UNCHANGED execVars
    /\ UNCHANGED opVars

\* an operation of auth, db, call or client sends its request
SendRequest(component) ==
    /\ app.constructed
    /\ sent' = [ component |-> component,
                 configHeaders |-> EmptyHeaders,
                 headers |-> ComponentRequestHeaders(app),
                 token |-> tok ]
    /\ UNCHANGED <<env, tok, hdr, app>>
    /\ UNCHANGED execVars
    /\ UNCHANGED opVars

\* UploadFile taking the Authorization header from the client's headers,
\* assembled when the FrappeApp was constructed
UploadFileCachedToken ==
    /\ app.constructed
    /\ LET c == HeaderCall([useToken |-> app.useToken, tokenType |-> app.tokenType,
                            token |-> app.token, appURL |-> app.url,
                            customHeaders |-> app.customHeaders])
           cached == [ k \in DOMAIN c.result.headers |->
                         IF k = "Authorization" /\ k \in DOMAIN app.axios.headers
                         THEN app.axios.headers[k] ELSE c.result.headers[k] ]
       IN  /\ hdr' = c
           /\ sent' = IF c.result.threw THEN sent
                      ELSE [ component |-> "file",
                             configHeaders |-> ("Content-Type" :> "multipart/form-data")
                                               @@ cached,
                             headers |-> RequestHeaders(app.axios.headers,
                                            ("Content-Type" :> "multipart/form-data")
                                            @@ cached),
                             token |-> tok ]
    /\ UNCHANGED <<env, tok, app>>
    /\ UNCHANGED execVars
    /\ UNCHANGED opVars

\* file().uploadFile sends its request with per-request headers
UploadFile ==
    /\ app.constructed
    /\ LET c == HeaderCall([useToken |-> app.useToken, tokenType |-> app.tokenType,
                            token |-> app.token, appURL |-> app.url,
                            customHeaders |-> app.customHeaders])
       IN  /\ hdr' = c
           /\ sent' = IF c.result.threw THEN sent
                      ELSE [ component |-> "file",
                             configHeaders |-> uploadFileHeaders(c.result),
                             headers |-> RequestHeaders(app.axios.headers,
                                                        uploadFileHeaders(c.result)),
                             token |-> tok ]
    /\ UNCHANGED <<env, tok, app>>
    /\ UNCHANGED execVars
    /\ UNCHANGED opVars

(***************************************************************************)
(* Specifications.                                                         *)
(***************************************************************************)
\* no SDK operation, upload or concurrent invocation has been started
NoOperation == [name |-> "none"]
NoUpload == [started |-> FALSE]
NoCalls == <<>>

\* no request issued, no FrappeApp constructed
IdleExecutor ==
    /\ pc = "idle"
    /\ opts = NoOptions
    /\ transport = NoOutcome
    /\ requests = 0
    /\ transformCalls = 0
    /\ settlements = <<>>
    /\ invocations = 0
    /\ app = NoApp
    /\ sent = NoRequest

\* the state before anything is called, in a given context
Idle ==
    /\ IdleExecutor
    /\ op = NoOperation
    /\ upload = NoUpload
    /\ calls = NoCalls

\* handleRequest
Init ==
    /\ Idle
    /\ env = [browser |-> FALSE, csrf_token |-> JUndefined]
    /\ tok = "abc"
    /\ hdr = NoCall

Next ==
    \/ \E o \in HandlerOptions : Invoke(o)
    \/ \E outcome \in TransportOutcomes : TransportSettles(outcome)
    \/ ResumeTry
    \/ ResumeCatch

Spec == Init /\ [][Next]_vars

\* getRequestHeaders called directly, for every argument list and context
HeaderInit ==
    /\ Idle
    /\ env \in Envs
    /\ tok \in TokenValues
    /\ hdr \in { PendingCall(a) : a \in HeaderArgs }

HeaderNext == GetRequestHeadersCall

HeaderSpec == HeaderInit /\ [][HeaderNext]_vars

\* a FrappeApp and the requests sent through it
AppNext ==
    \/ \E u \in AppURLs, p \in TokenParamSets, c \in CustomHeaderSets :
          NewFrappeApp(JStr(u), p, c)
    \/ \E v \in TokenValues : RefreshToken(v)
    \/ \E component \in PlainComponents : SendRequest(component)
    \/ UploadFile

AppInit ==
    /\ Idle
    /\ env \in Envs
    /\ tok \in TokenValues
    /\ hdr = NoCall

AppSpec == AppInit /\ [][AppNext]_vars

(***************************************************************************)
(* Query parameters: JSON.stringify, String and URLSearchParams as the     *)
(* operations of FrappeDB, FrappeCall and FrappeClient use them.           *)
(***************************************************************************)
\* a JavaScript array
JArr(elems) == <<"array", elems>>

\* typeof v === 'object' for a value that is neither null nor undefined
TypeofObject(v) == v[1] \in {"object", "array", "error"}

\* the decimal digits of a natural number
RECURSIVE Digits(_)
Digits(n) ==
    LET d == <<"0", "1", "2", "3", "4", "5", "6", "7", "8", "9">>
    IN  IF n < 10 THEN d[n + 1] ELSE Digits(n \div 10) \o d[(n % 10) + 1]

\* String(v) of a primitive
StringOf(v) ==
    CASE v[1] = "string" -> v[2]
      [] v[1] = "number" -> Digits(v[2])
      [] v[1] = "boolean" -> IF v[2] THEN "true" ELSE "false"
      [] v = JNull -> "null"
      [] v = JUndefined -> "undefined"
      [] OTHER -> "[object Object]"

\* JSON.stringify(v): strings quoted, numbers in decimal, arrays in brackets
\* with their elements comma-separated, objects in braces with "key":value
\* entries.  The strings modelled need no escaping; the properties of an
\* object are written in the order the model enumerates them, which is the
\* insertion order for the objects modelled (they have one property).
RECURSIVE JSONStringify(_)
RECURSIVE JSONElements(_)
RECURSIVE JSONEntries(_, _)
JSONStringify(v) ==
    CASE v[1] = "string" -> "\"" \o v[2] \o "\""
      [] v[1] = "number" -> Digits(v[2])
      [] v[1] = "boolean" -> IF v[2] THEN "true" ELSE "false"
      [] v = JNull -> "null"
      [] v[1] = "array" -> "[" \o JSONElements(v[2]) \o "]"
      [] v[1] = "object" -> "{" \o JSONEntries(v[2], DOMAIN v[2]) \o "}"
JSONElements(elems) ==
    IF elems = <<>> THEN ""
    ELSE IF Len(elems) = 1 THEN JSONStringify(elems[1])
    ELSE JSONStringify(elems[1]) \o "," \o JSONElements(Tail(elems))
JSONEntries(f, keys) ==
    IF keys = {} THEN ""
    ELSE LET k == CHOOSE x \in keys : TRUE
             entry == "\"" \o k \o "\":" \o JSONStringify(f[k])
         IN  IF keys = {k} THEN entry
             ELSE entry \o "," \o JSONEntries(f, keys \ {k})

\* a URLSearchParams object: its entries, name to string value
URLSearchParams(entries) == <<"URLSearchParams", entries>>

\* the query of FrappeCall.get and FrappeClient.get: every parameter that is
\* neither null nor undefined is set, an object or array JSON-encoded and
\* anything else as String(value)
encodedParams(params) ==
    IF ~Truthy(params) THEN URLSearchParams(EmptyObj)
    ELSE LET f == SpreadProps(params)
             set == { k \in DOMAIN f : f[k] \notin {JNull, JUndefined} }
         IN  URLSearchParams([ k \in set |->
                 IF TypeofObject(f[k]) THEN JSONStringify(f[k]) ELSE StringOf(f[k]) ])

\* getDocListParams with the sort order left out when the caller gives none
getDocListParamsNoDefaultOrder(args) ==
    IF ~Truthy(args) THEN JObj(EmptyObj)
    ELSE LET fields == GetProp(args, "fields")
             filters == GetProp(args, "filters")
             groupBy == GetProp(args, "groupBy")
             orderBy == GetProp(args, "orderBy")
             asDict == IF GetProp(args, "asDict") = JUndefined THEN JBool(TRUE)
                       ELSE GetProp(args, "asDict")
             orFilters == GetProp(args, "orFilters")
             orderByString ==
                 IF Truthy(orderBy)
                 THEN JStr(StringOf(OptProp(orderBy, "field")) \o " "
                           \o TemplateStr(OptProp(orderBy, "order")))
                 ELSE JStr("")
         IN  JObj( "fields" :> (IF Truthy(fields) THEN JStr(JSONStringify(fields))
                                ELSE JUndefined)
                @@ "filters" :> (IF Truthy(filters) THEN JStr(JSONStringify(filters))
                                 ELSE JUndefined)
                @@ "group_by" :> groupBy
                @@ "order_by" :> orderByString
                @@ "limit_start" :> GetProp(args, "limit_start")
                @@ "limit" :> GetProp(args, "limit")
                @@ "as_dict" :> asDict
                @@ "or_filters" :> (IF Truthy(orFilters) THEN JStr(JSONStringify(orFilters))
                                    ELSE JUndefined) )

\* the params object FrappeDB.getDocList builds from its args
getDocListParams(args) ==
    IF ~Truthy(args) THEN JObj(EmptyObj)
    ELSE LET fields == GetProp(args, "fields")
             filters == GetProp(args, "filters")
             groupBy == GetProp(args, "groupBy")
             orderBy == GetProp(args, "orderBy")
             asDict == IF GetProp(args, "asDict") = JUndefined THEN JBool(TRUE)
                       ELSE GetProp(args, "asDict")
             orFilters == GetProp(args, "orFilters")
             orderByString ==
                 IF Truthy(orderBy)
                 THEN JStr(StringOf(OptProp(orderBy, "field")) \o " "
                           \o TemplateStr(Coalesce(OptProp(orderBy, "order"), JStr("asc"))))
                 ELSE JStr("")
         IN  JObj( "fields" :> (IF Truthy(fields) THEN JStr(JSONStringify(fields))
                                ELSE JUndefined)
                @@ "filters" :> (IF Truthy(filters) THEN JStr(JSONStringify(filters))
                                 ELSE JUndefined)
                @@ "group_by" :> groupBy
                @@ "order_by" :> orderByString
                @@ "limit_start" :> GetProp(args, "limit_start")
                @@ "limit" :> GetProp(args, "limit")
                @@ "as_dict" :> asDict
                @@ "or_filters" :> (IF Truthy(orFilters) THEN JStr(JSONStringify(orFilters))
                                    ELSE JUndefined) )

\* the params object FrappeDB.getCount builds (doctype Task, cache and debug
\* left at their defaults)
getCountParams(filters) ==
    JObj( "doctype" :> JStr("Task")
       @@ "filters" :> (IF Truthy(filters) THEN JStr(JSONStringify(filters))
                        ELSE JArr(<<>>)) )

(***************************************************************************)
(* The multipart form FrappeFileUpload.uploadFile builds.                  *)
(***************************************************************************)
\* a File with its name
JFile(name) == JObj("name" :> JStr(name))

\* an object given by its own properties in insertion order, the order in
\* which Object.keys lists them: a sequence of <<key, value>>
JEntries(entries) == <<"entries", entries>>

\* one formData.append(name, value, filename)
FormEntry(name, value, filename) == [name |-> name, value |-> value, filename |-> filename]

\* buildFormData with the fieldname appended whenever it is given
buildFormDataFieldnameAlways(file, args) ==
    LET isPrivate == GetProp(args, "isPrivate")
        folder == GetProp(args, "folder")
        file_url == GetProp(args, "file_url")
        doctype == GetProp(args, "doctype")
        docname == GetProp(args, "docname")
        fieldname == GetProp(args, "fieldname")
        otherData == GetProp(args, "otherData")
    IN  (IF Truthy(file) THEN << FormEntry("file", file, GetProp(file, "name")) >> ELSE <<>>)
        \o (IF Truthy(isPrivate) THEN << FormEntry("is_private", JStr("1"), JUndefined) >>
            ELSE <<>>)
        \o (IF Truthy(folder) THEN << FormEntry("folder", folder, JUndefined) >> ELSE <<>>)
        \o (IF Truthy(file_url) THEN << FormEntry("file_url", file_url, JUndefined) >>
            ELSE <<>>)
        \o (IF Truthy(doctype) /\ Truthy(docname)
            THEN << FormEntry("doctype", doctype, JUndefined),
                    FormEntry("docname", docname, JUndefined) >>
            ELSE <<>>)
        \o (IF Truthy(fieldname) THEN << FormEntry("fieldname", fieldname, JUndefined) >>
            ELSE <<>>)
        \o (IF Truthy(otherData)
            THEN [ i \in 1..Len(otherData[2]) |->
                     FormEntry(otherData[2][i][1], otherData[2][i][2], JUndefined) ]
            ELSE <<>>)

\* the FormData uploadFile builds: the sequence of its appended entries
buildFormData(file, args) ==
    LET isPrivate == GetProp(args, "isPrivate")
        folder == GetProp(args, "folder")
        file_url == GetProp(args, "file_url")
        doctype == GetProp(args, "doctype")
        docname == GetProp(args, "docname")
        fieldname == GetProp(args, "fieldname")
        otherData == GetProp(args, "otherData")
    IN  (IF Truthy(file) THEN << FormEntry("file", file, GetProp(file, "name")) >> ELSE <<>>)
        \o (IF Truthy(isPrivate) THEN << FormEntry("is_private", JStr("1"), JUndefined) >>
            ELSE <<>>)
        \o (IF Truthy(folder) THEN << FormEntry("folder", folder, JUndefined) >> ELSE <<>>)
        \o (IF Truthy(file_url) THEN << FormEntry("file_url", file_url, JUndefined) >>
            ELSE <<>>)
        \o (IF Truthy(doctype) /\ Truthy(docname)
            THEN << FormEntry("doctype", doctype, JUndefined),
                    FormEntry("docname", docname, JUndefined) >>
                 \o (IF Truthy(fieldname)
                     THEN << FormEntry("fieldname", fieldname, JUndefined) >>
                     ELSE <<>>)
            ELSE <<>>)
        \o (IF Truthy(otherData)
            THEN [ i \in 1..Len(otherData[2]) |->
                     FormEntry(otherData[2][i][1], otherData[2][i][2], JUndefined) ]
            ELSE <<>>)

(***************************************************************************)
(* The operations of the SDK.  An operation either hands a request and its *)
(* options to handleRequest, or calls axios itself and chains its own      *)
(* then and catch callbacks.                                               *)
(***************************************************************************)
\* an operation built on handleRequest; method is "undefined" where the
\* operation passes none
ViaHandleRequest(method, url, errorMessage, transformResponse) ==
    [ impl |-> "handleRequest", method |-> method, url |-> url,
      errorMessage |-> JStr(errorMessage), transformResponse |-> transformResponse,
      then |-> "none", fixedMessage |-> FALSE, excType |-> TRUE ]

\* an operation that calls axios itself: what its then callback returns
\* ("res.data", "res.data.data", "res.data.message", "void", or "res" where
\* there is no then callback), whether its catch callback sets the message
\* to the fixed text whatever the body says, and whether it falls back to
\* the body's exc_type
ViaAxios(method, url, errorMessage, then, fixedMessage, excType) ==
    [ impl |-> "direct", method |-> method, url |-> url,
      errorMessage |-> JStr(errorMessage), transformResponse |-> "default",
      then |-> then, fixedMessage |-> fixedMessage, excType |-> excType ]

FrappeAuthOperations ==
    "FrappeAuth.loginWithUsernamePassword" :>
        ViaAxios("POST", "/api/method/login", "There was an error while logging in",
                 "res.data", FALSE, FALSE)
 @@ "FrappeAuth.getLoggedInUser" :>
        ViaAxios("GET", "/api/method/frappe.auth.get_logged_user",
                 "There was an error while fetching the logged in user",
                 "res.data.message", TRUE, FALSE)
 @@ "FrappeAuth.logout" :>
        ViaAxios("POST", "/api/method/logout", "There was an error while logging out",
                 "void", FALSE, FALSE)
 @@ "FrappeAuth.forgetPassword" :>
        ViaAxios("POST", "/", "There was an error sending password reset email.",
                 "void", FALSE, FALSE)

FrappeDBOperations ==
    "FrappeDB.getDoc" :>
        ViaHandleRequest("GET", "/api/resource/Task/TASK-001",
                         "There was an error while fetching the document.", "data")
 @@ "FrappeDB.getDocList" :>
        ViaHandleRequest("GET", "/api/resource/Task",
                         "There was an error while fetching the documents.", "data")
 @@ "FrappeDB.createDoc" :>
        ViaHandleRequest("POST", "/api/resource/Task",
                         "There was an error while creating the document.", "data")
 @@ "FrappeDB.getCount" :>
        ViaHandleRequest("GET", "/api/method/frappe.client.get_count",
                         "There was an error while getting the count.", "data")

\* FrappeDB calling axios itself (src/db/index.ts)
FrappeDBAxiosOperations ==
    "FrappeDB.getDoc (axios)" :>
        ViaAxios("GET", "/api/resource/Task/TASK-001",
                 "There was an error while fetching the document.",
                 "res.data.data", TRUE, TRUE)
 @@ "FrappeDB.getDocList (axios)" :>
        ViaAxios("GET", "/api/resource/Task",
                 "There was an error while fetching the documents.",
                 "res.data.data", TRUE, TRUE)
 @@ "FrappeDB.createDoc (axios)" :>
        ViaAxios("POST", "/api/resource/Task",
                 "There was an error while creating the document.",
                 "res.data.data", FALSE, TRUE)
 @@ "FrappeDB.getCount (axios)" :>
        ViaAxios("GET", "/api/method/frappe.client.get_count",
                 "There was an error while getting the count.",
                 "res.data.message", TRUE, TRUE)

PermissionOperations ==
    "Permission.hasPermission" :>
        ViaHandleRequest("undefined", "/api/method/frappe.client.has_permission",
                         "There was an error while checking the permission.",
                         "data.message")
 @@ "Permission.getDocPermissions" :>
        ViaHandleRequest("undefined", "/api/method/frappe.client.get_doc_permissions",
                         "There was an error while fetching the document permissions.",
                         "data.message")

FrappeCallOperations ==
    "FrappeCall.get" :>
        ViaHandleRequest("GET", "/api/method/frappe.ping",
                         "There was an error while making the GET request.", "data")
 @@ "FrappeCall.post" :>
        ViaHandleRequest("POST", "/api/method/frappe.ping",
                         "There was an error while making the POST request.", "data")
 @@ "FrappeCall.put" :>
        ViaHandleRequest("PUT", "/api/method/frappe.ping",
                         "There was an error while making the PUT request.", "data")
 @@ "FrappeCall.delete" :>
        ViaHandleRequest("DELETE", "/api/method/frappe.ping",
                         "There was an error while making the DELETE request.", "data")

FrappeClientOperations ==
    "FrappeClient.getList" :>
        ViaHandleRequest("undefined", "/api/method/frappe.client.get_list/",
                         "There was an error while fetching the documents.", "message")
 @@ "FrappeClient.getDoc" :>
        ViaHandleRequest("undefined", "/api/method/frappe.client.get/",
                         "There was an error while fetching the document.", "data.message")
 @@ "FrappeClient.get" :>
        ViaHandleRequest("GET", "frappe.ping",
                         "There was an error while making the GET request.", "data")
 @@ "FrappeClient.post" :>
        ViaHandleRequest("POST", "frappe.ping",
                         "There was an error while making the POST request.", "data")
 @@ "FrappeClient.put" :>
        ViaHandleRequest("PUT", "frappe.ping",
                         "There was an error while making the PUT request.", "data")
 @@ "FrappeClient.delete" :>
        ViaHandleRequest("DELETE", "frappe.ping",
                         "There was an error while making the DELETE request.", "data")

FrappeFileUploadOperations ==
    "FrappeFileUpload.uploadFile" :>
        ViaHandleRequest("undefined", "/api/method/upload_file",
                         "There was an error while uploading the file.", "data.message")

\* uploadFile calling axios.post itself (src/file/index.ts)
FrappeFileUploadAxiosOperations ==
    "FrappeFileUpload.uploadFile (axios)" :>
        ViaAxios("POST", "/api/method/upload_file",
                 "There was an error while uploading the file.", "res", FALSE, FALSE)

Operations ==
    FrappeAuthOperations @@ FrappeDBOperations @@ FrappeDBAxiosOperations
    @@ PermissionOperations @@ FrappeCallOperations @@ FrappeClientOperations
    @@ FrappeFileUploadOperations @@ FrappeFileUploadAxiosOperations

OperationNames == DOMAIN Operations

\* the argument lists the model calls the operations with
OpenFilters == JArr(<< JArr(<< JStr("status"), JStr("="), JStr("Open") >>) >>)

GetDocListArgs ==
    { JUndefined,
      JObj("filters" :> OpenFilters
           @@ "orderBy" :> JObj("field" :> JStr("creation") @@ "order" :> JStr("desc"))
           @@ "limit" :> JNum(10)),
      JObj("filters" :> OpenFilters
           @@ "orderBy" :> JObj("field" :> JStr("modified"))
           @@ "limit" :> JNum(25)),
      JObj("fields" :> JArr(<< JStr("name"), JStr("subject") >>)
           @@ "orderBy" :> JObj("field" :> JStr("creation") @@ "order" :> JStr("asc"))),
      JObj("limit" :> JNum(0) @@ "asDict" :> JBool(FALSE)) }

ApiParams ==
    { JUndefined,
      JObj("limit" :> JNum(10)),
      JObj("filters" :> JObj("user_type" :> JStr("System User")) @@ "limit" :> JNum(10)),
      JObj("fields" :> JArr(<< JStr("name"), JStr("email") >>) @@ "debug" :> JNull) }

\* the argument lists of getLoggedInUser(method, withCredentials); an
\* argument left out is undefined
GetLoggedInUserArgs ==
    { JArr(<< m, w >>) :
        m \in {JUndefined, JStr("frappe.auth.get_logged_user")},
        w \in {JUndefined, JBool(TRUE), JBool(FALSE)} }

\* the apiPath argument of uploadFile
ApiPaths == {JUndefined, JStr("my_app.api.upload")}

UploadOperations == {"FrappeFileUpload.uploadFile", "FrappeFileUpload.uploadFile (axios)"}

OperationArgs(n) ==
    CASE n \in {"FrappeDB.getDocList", "FrappeDB.getDocList (axios)"} -> GetDocListArgs
      [] n = "FrappeAuth.getLoggedInUser" -> GetLoggedInUserArgs
      [] n \in UploadOperations -> ApiPaths
      [] n \in {"FrappeDB.getCount", "FrappeDB.getCount (axios)"} -> {JUndefined, OpenFilters}
      [] n \in DOMAIN FrappeCallOperations
              \cup {"FrappeClient.get", "FrappeClient.post",
                    "FrappeClient.put", "FrappeClient.delete"} -> ApiParams
      [] OTHER -> {JUndefined}

\* config.params of the request the operation issues for the argument a;
\* undefined where the operation sets none
RequestParams(n, a) ==
    CASE n \in {"FrappeDB.getDocList", "FrappeDB.getDocList (axios)"} -> getDocListParams(a)
      [] n \in {"FrappeDB.getCount", "FrappeDB.getCount (axios)"} -> getCountParams(a)
      [] n \in {"FrappeCall.get", "FrappeClient.get"} -> encodedParams(a)
      [] n \in {"FrappeCall.delete", "FrappeClient.delete"} -> a
      [] n = "Permission.hasPermission" ->
            JObj("doctype" :> JStr("Task") @@ "docname" :> JStr("TASK-001")
                 @@ "perm_type" :> JStr("read"))
      [] n = "Permission.getDocPermissions" ->
            JObj("doctype" :> JStr("Task") @@ "docname" :> JStr("TASK-001"))
      [] OTHER -> JUndefined

\* the file and FileArgs the operations model uploads
UploadedFile == JFile("a.png")
UploadedFileArgs == JObj("isPrivate" :> JBool(TRUE) @@ "folder" :> JStr("Home"))

\* a FormData object: its appended entries
FormData(entries) == <<"FormData", entries>>

\* config.data of the request: the body of the post and put calls, the
\* multipart form of an upload
RequestData(n, a) ==
    CASE n \in {"FrappeCall.post", "FrappeCall.put",
                "FrappeClient.post", "FrappeClient.put"} -> a
      [] n \in UploadOperations -> FormData(buildFormData(UploadedFile, UploadedFileArgs))
      [] OTHER -> JUndefined

\* the url of the request: a template literal over an argument for
\* getLoggedInUser (the method) and uploadFile (apiPath = 'upload_file')
RequestURL(n, a) ==
    CASE n = "FrappeAuth.getLoggedInUser" -> "/api/method/" \o TemplateStr(a[2][1])
      [] n \in UploadOperations ->
            "/api/method/" \o TemplateStr(IF a = JUndefined THEN JStr("upload_file") ELSE a)
      [] OTHER -> Operations[n].url

\* config.withCredentials of the request; undefined where the operation
\* sets none
RequestWithCredentials(n, a) ==
    CASE n = "FrappeAuth.getLoggedInUser" -> Coalesce(a[2][2], JBool(FALSE))
      [] OTHER -> JUndefined

\* the request the operation n hands to axios when called with a
RequestOf(n, a) ==
    [ method |-> Operations[n].method, url |-> RequestURL(n, a),
      params |-> RequestParams(n, a), data |-> RequestData(n, a),
      withCredentials |-> RequestWithCredentials(n, a) ]

\* the HTTP method axios sends a request with: GET when the config names none
AxiosMethod(request) == IF request.method = "undefined" THEN "GET" ELSE request.method

\* the withCredentials axios sends a request with: the request's own when it
\* sets one, else that of the client getAxiosClient built
AxiosWithCredentials(request) ==
    Coalesce(request.withCredentials,
             JBool(getAxiosClient(JStr("https://test.example.com"), JUndefined, JUndefined,
                                  JUndefined, JUndefined).withCredentials))

\* what the then callback of an operation that calls axios itself returns
ThenCallback(then, res) ==
    LET data == GetProp(res, "data")
    IN  CASE then = "res" -> Returned(res)
          [] then = "void" -> Returned(JUndefined)
          [] then = "res.data" -> Returned(data)
          [] then = "res.data.data" ->
                IF data \in {JUndefined, JNull} THEN Threw(PlainErr("TypeError"))
                ELSE Returned(GetProp(data, "data"))
          [] then = "res.data.message" ->
                IF data \in {JUndefined, JNull} THEN Threw(PlainErr("TypeError"))
                ELSE Returned(GetProp(data, "message"))

\* what the catch callback of an operation that calls axios itself throws:
\* reading error.response.data of an error without response, or a property
\* of a body that is null or undefined, is a TypeError
CatchCallback(o, error) ==
    LET response == GetProp(error, "response")
        data == GetProp(response, "data")
    IN  IF response \in {JUndefined, JNull} \/ data \in {JUndefined, JNull}
        THEN PlainErr("TypeError")
        ELSE JObj( "httpStatus" :> GetProp(response, "status")
                @@ "httpStatusText" :> GetProp(response, "statusText")
                @@ "message" :> (IF o.fixedMessage THEN o.errorMessage
                                 ELSE Coalesce(GetProp(data, "message"), o.errorMessage))
                @@ "exception" :>
                      Coalesce(GetProp(data, "exception"),
                               IF o.excType THEN Coalesce(GetProp(data, "exc_type"), JStr(""))
                               ELSE JStr(""))
                @@ SpreadProps(data) )

\* the operation in progress
Operation == Operations[op.name]

\* a caller calls the operation n with the argument a: the request is issued
CallOperation(n, a) ==
    /\ pc = "idle"
    /\ op' = [name |-> n, args |-> a, request |-> RequestOf(n, a)]
    /\ opts' = IF Operations[n].impl = "handleRequest"
               THEN [ errorMessage |-> Operations[n].errorMessage,
                      transformResponse |-> Operations[n].transformResponse,
                      config |-> [method |-> Operations[n].method, url |-> Operations[n].url] ]
               ELSE opts
    /\ invocations' = invocations + 1
    /\ requests' = requests + 1
    /\ transformCalls' = 0
    /\ settlements' = <<>>
    /\ transport' = NoOutcome
    /\ pc' = "awaiting"
    /\ UNCHANGED appVars
    /\ UNCHANGED <<upload, calls>>

\* the promise of axios fulfils: the then callback runs, and what it throws
\* goes to the catch callback chained after it
AxiosThen ==
    /\ pc = "resumed"
    /\ transport.ok
    /\ LET r == ThenCallback(Operation.then, transport.response)
       IN  settlements' =
              Append(settlements,
                     IF r.threw THEN Rejected(CatchCallback(Operation, r.value))
                     ELSE Resolved(r.value))
    /\ pc' = "done"
    /\ UNCHANGED <<opts, transport, requests, transformCalls, invocations>>
    /\ UNCHANGED appVars
    /\ UNCHANGED opVars

\* the promise of axios rejects: the catch callback runs
AxiosCatch ==
    /\ pc = "resumed"
    /\ ~transport.ok
    /\ settlements' = Append(settlements, Rejected(CatchCallback(Operation, transport.error)))
    /\ pc' = "done"
    /\ UNCHANGED <<opts, transport, requests, transformCalls, invocations>>
    /\ UNCHANGED appVars
    /\ UNCHANGED opVars

\* the operation in progress awaits handleRequest, which resumes
OperationResumeTry ==
    /\ op # NoOperation /\ Operation.impl = "handleRequest"
    /\ ResumeTry

OperationResumeCatch ==
    /\ op # NoOperation /\ Operation.impl = "handleRequest"
    /\ ResumeCatch

\* the operation in progress called axios itself, whose promise settles
OperationAxiosThen ==
    /\ op # NoOperation /\ Operation.impl = "direct"
    /\ AxiosThen

OperationAxiosCatch ==
    /\ op # NoOperation /\ Operation.impl = "direct"
    /\ AxiosCatch

OpNext ==
    \/ \E n \in OperationNames : \E a \in OperationArgs(n) : CallOperation(n, a)
    \/ \E outcome \in TransportOutcomes : TransportSettles(outcome)
    \/ OperationResumeTry
    \/ OperationResumeCatch
    \/ OperationAxiosThen
    \/ OperationAxiosCatch

\* the operations of the SDK, one call of one operation per behaviour
OpSpec == Init /\ [][OpNext]_vars

(***************************************************************************)
(* FrappeFileUpload.uploadFile: the multipart form, the request and the    *)
(* progress callback.                                                      *)
(***************************************************************************)
\* the options uploadFile passes to handleRequest; it passes no method
uploadFileOptions ==
    [ errorMessage |-> JStr("There was an error while uploading the file."),
      transformResponse |-> "data.message",
      config |-> [method |-> "undefined", url |-> "/api/method/upload_file"] ]

\* the onProgress argument: a function object, or left out
ProgressCallback == <<"function", "onProgress">>

\* the otherData objects the model draws from
OtherDataSets ==
    { JEntries(<<>>),
      JEntries(<< <<"optimize", JStr("1")>> >>),
      JEntries(<< <<"folder", JStr("Home/Attachments")>> >>),
      JEntries(<< <<"library_file_name", JStr("a.png")>>, <<"optimize", JStr("1")>> >>) }

\* the FileArgs the model draws from
FileArgs ==
    { JObj(p @@ f @@ u @@ dt @@ dn @@ fn @@ od) :
        p \in OptField("isPrivate", {JBool(TRUE), JBool(FALSE)}),
        f \in OptField("folder", {JStr(""), JStr("Home")}),
        u \in OptField("file_url", {JStr("/files/a.png")}),
        dt \in OptField("doctype", {JStr("Task")}),
        dn \in OptField("docname", {JStr("TASK-001")}),
        fn \in OptField("fieldname", {JStr("image")}),
        od \in OptField("otherData", OtherDataSets) }

Files == {JUndefined, JFile("a.png")}

\* an uploadFile call about to be made: its arguments, and whether the
\* transport can tell the total size of the request body
PendingUpload(file, args, onProgress, lengthComputable) ==
    [ started |-> FALSE, file |-> file, args |-> args, onProgress |-> onProgress,
      lengthComputable |-> lengthComputable,
      form |-> <<>>, events |-> <<>>, progressCalls |-> <<>> ]

\* uploadFile is called: the form is built and handed to handleRequest,
\* which issues the request and suspends at the await
UploadFileCall ==
    /\ pc = "idle"
    /\ upload # NoUpload
    /\ ~upload.started
    /\ upload' = [upload EXCEPT !.started = TRUE,
                                !.form = buildFormData(upload.file, upload.args)]
    /\ opts' = uploadFileOptions
    /\ invocations' = invocations + 1
    /\ requests' = requests + 1
    /\ transformCalls' = 0
    /\ settlements' = <<>>
    /\ transport' = NoOutcome
    /\ pc' = "awaiting"
    /\ UNCHANGED appVars
    /\ UNCHANGED <<op, calls>>

\* an AxiosProgressEvent
ProgressEvent(loaded, total) == JObj("loaded" :> JNum(loaded) @@ "total" :> total)

\* the total the transport reports: the size of the body, or undefined when
\* it cannot compute the length
ReportedTotal == IF upload.lengthComputable THEN JNum(TotalBytes) ELSE JUndefined

\* UploadProgress calling onProgress only for the event that completes the upload
UploadProgressOnlyFinal(loaded) ==
    /\ pc = "awaiting"
    /\ upload # NoUpload
    /\ upload.started
    /\ Len(upload.events) < MaxEvents
    /\ upload.events # <<>> =>
          loaded >= GetProp(upload.events[Len(upload.events)], "loaded")[2]
    /\ LET progressEvent == ProgressEvent(loaded, ReportedTotal)
       IN  upload' =
              [upload EXCEPT
                 !.events = Append(@, progressEvent),
                 !.progressCalls =
                     IF Truthy(upload.onProgress) /\ loaded = TotalBytes
                     THEN Append(@, << GetProp(progressEvent, "loaded"),
                                       GetProp(progressEvent, "total"), progressEvent >>)
                     ELSE @]
    /\ UNCHANGED execVars
    /\ UNCHANGED appVars
    /\ UNCHANGED <<op, calls>>

\* the transport reports upload progress while the request is in flight: the
\* onUploadProgress handler calls onProgress(loaded, total, progressEvent)
\* when the caller gave one.  The bytes the transport reports never decrease.
UploadProgress(loaded) ==
    /\ pc = "awaiting"
    /\ upload # NoUpload
    /\ upload.started
    /\ Len(upload.events) < MaxEvents
    /\ upload.events # <<>> =>
          loaded >= GetProp(upload.events[Len(upload.events)], "loaded")[2]
    /\ LET progressEvent == ProgressEvent(loaded, ReportedTotal)
       IN  upload' =
              [upload EXCEPT
                 !.events = Append(@, progressEvent),
                 !.progressCalls =
                     IF Truthy(upload.onProgress)
                     THEN Append(@, << GetProp(progressEvent, "loaded"),
                                       GetProp(progressEvent, "total"), progressEvent >>)
                     ELSE @]
    /\ UNCHANGED execVars
    /\ UNCHANGED appVars
    /\ UNCHANGED <<op, calls>>

\* what the upload request can settle with
UploadOutcomes ==
    { [ok |-> TRUE, response |-> Response(200, "OK", JObj("message" :> JStr("file"))),
       error |-> JUndefined],
      [ok |-> TRUE, response |-> Response(200, "OK",
                                          JObj("data" :> JObj("message" :> JStr("file")))),
       error |-> JUndefined],
      [ok |-> FALSE, response |-> JUndefined,
       error |-> AxiosErr("ERR_BAD_REQUEST",
                          Response(417, "Expectation Failed",
                                   JObj("exc_type" :> JStr("DoesNotExistError"))))],
      [ok |-> FALSE, response |-> JUndefined, error |-> AxiosErr("ERR_NETWORK", JUndefined)] }

\* uploadFile called with every combination of arguments: the form it builds
FormInit ==
    /\ IdleExecutor
    /\ op = NoOperation
    /\ calls = NoCalls
    /\ env = [browser |-> FALSE, csrf_token |-> JUndefined]
    /\ tok = "abc"
    /\ hdr = NoCall
    /\ upload \in { PendingUpload(file, args, JUndefined, TRUE) :
                       file \in Files, args \in FileArgs }

FormNext == UploadFileCall

FormSpec == FormInit /\ [][FormNext]_vars

\* one upload from the call to the settlement, with the progress the
\* transport reports in between
ProgressInit ==
    /\ IdleExecutor
    /\ op = NoOperation
    /\ calls = NoCalls
    /\ env = [browser |-> FALSE, csrf_token |-> JUndefined]
    /\ tok = "abc"
    /\ hdr = NoCall
    /\ upload \in { PendingUpload(JFile("a.png"), JObj("isPrivate" :> JBool(TRUE)),
                                  onProgress, lengthComputable) :
                       onProgress \in {JUndefined, ProgressCallback},
                       lengthComputable \in BOOLEAN }

ProgressNext ==
    \/ UploadFileCall
    \/ \E loaded \in 0..TotalBytes : UploadProgress(loaded)
    \/ \E outcome \in UploadOutcomes : TransportSettles(outcome)
    \/ ResumeTry
    \/ ResumeCatch

ProgressSpec == ProgressInit /\ [][ProgressNext]_vars

(***************************************************************************)
(* FrappeDB.getLastDoc: a list request, then a get-document request.       *)
(* settlements holds what the getDocList and getDoc calls it awaits settle *)
(* with, in order; op.result is what getLastDoc itself settles with.       *)
(***************************************************************************)
\* the args the model calls getLastDoc with (undefined when left out)
GetLastDocArgs ==
    { JUndefined,
      JObj("filters" :> OpenFilters),
      JObj("filters" :> OpenFilters @@ "orFilters" :> OpenFilters),
      JObj("orderBy" :> JObj("field" :> JStr("modified") @@ "order" :> JStr("asc"))),
      JObj("orderBy" :> JObj("field" :> JStr("modified"))),
      JObj("filters" :> OpenFilters @@ "orderBy" :> JUndefined),
      JObj("limit" :> JNum(5) @@ "fields" :> JArr(<< JStr("*") >>)) }

\* the second argument of the getDocList call of getLastDoc:
\* { ...queryArgs, limit: 1, fields: ['name'] } with queryArgs the default
\* orderBy overridden by the properties of args
getLastDocQueryArgs(args) ==
    LET defaults == "orderBy" :> JObj("field" :> JStr("creation") @@ "order" :> JStr("desc"))
        queryArgs == IF Truthy(args) THEN SpreadProps(args) @@ defaults ELSE defaults
    IN  JObj(("limit" :> JNum(1) @@ "fields" :> JArr(<< JStr("name") >>)) @@ queryArgs)

\* the request of the getDocList call and of the getDoc call
ListRequest(args) == RequestOf("FrappeDB.getDocList", getLastDocQueryArgs(args))

\* getDoc(doctype, docname = ''): the name is percent-encoded into the url;
\* the names modelled need no escaping
DocRequest(name) ==
    [ method |-> "GET",
      url |-> "/api/resource/Task/" \o (IF name = JUndefined THEN "" ELSE StringOf(name)),
      params |-> JUndefined, data |-> JUndefined, withCredentials |-> JUndefined ]

OptionsOf(n, request) ==
    [ errorMessage |-> Operations[n].errorMessage,
      transformResponse |-> Operations[n].transformResponse,
      config |-> [method |-> request.method, url |-> request.url] ]

\* what the two requests can settle with
LastDocOutcomes ==
    { [ok |-> TRUE, response |-> Response(200, "OK", JObj("data" :> JArr(<<>>))),
       error |-> JUndefined],
      [ok |-> TRUE,
       response |-> Response(200, "OK",
                             JObj("data" :> JArr(<< JObj("name" :> JStr("TASK-002")),
                                                    JObj("name" :> JStr("TASK-001")) >>))),
       error |-> JUndefined],
      [ok |-> TRUE,
       response |-> Response(200, "OK",
                             JObj("data" :> JObj("name" :> JStr("TASK-002")
                                                 @@ "subject" :> JStr("Fix")))),
       error |-> JUndefined],
      [ok |-> TRUE, response |-> Response(200, "OK", JObj("message" :> JStr("pong"))),
       error |-> JUndefined],
      [ok |-> FALSE, response |-> JUndefined,
       error |-> AxiosErr("ERR_BAD_REQUEST",
                          Response(404, "Not Found", JObj("exc_type" :> JStr("DoesNotExistError"))))],
      [ok |-> FALSE, response |-> JUndefined, error |-> AxiosErr("ERR_NETWORK", JUndefined)] }

\* getLastDoc is called: it builds the query and awaits getDocList, which
\* issues the list request
GetLastDocCall(a) ==
    /\ pc = "idle"
    /\ op' = [ name |-> "FrappeDB.getLastDoc", args |-> a, phase |-> "list",
               request |-> ListRequest(a), log |-> << ListRequest(a) >>, result |-> <<>> ]
    /\ opts' = OptionsOf("FrappeDB.getDocList", ListRequest(a))
    /\ invocations' = invocations + 1
    /\ requests' = requests + 1
    /\ transformCalls' = 0
    /\ settlements' = <<>>
    /\ transport' = NoOutcome
    /\ pc' = "awaiting"
    /\ UNCHANGED appVars
    /\ UNCHANGED <<upload, calls>>

\* getDocLists.length > 0 : reading length of undefined or null is a
\* TypeError; anything but a non-empty array has no positive length here
LengthThrows(list) == list \in {JUndefined, JNull}
NonEmpty(list) == list[1] = "array" /\ Len(list[2]) > 0

\* GetLastDocAfterList without the length test: the document is requested
\* also when the list is empty
GetLastDocAfterListAlwaysGets ==
    /\ op # NoOperation /\ op.name = "FrappeDB.getLastDoc" /\ op.phase = "list"
    /\ pc = "done"
    /\ LET awaited == settlements[Len(settlements)]
           list == awaited[2]
       IN  IF awaited[1] = "rejected"
           THEN /\ op' = [op EXCEPT !.phase = "over", !.result = << awaited >>]
                /\ UNCHANGED execVars
           ELSE IF LengthThrows(list)
           THEN /\ op' = [op EXCEPT !.phase = "over",
                                    !.result = << Rejected(PlainErr("TypeError")) >>]
                /\ UNCHANGED execVars
           ELSE LET name == IF NonEmpty(list) THEN GetProp(list[2][1], "name") ELSE JUndefined
                IN  /\ op' = [op EXCEPT !.phase = "doc", !.request = DocRequest(name),
                                        !.log = Append(@, DocRequest(name))]
                    /\ opts' = OptionsOf("FrappeDB.getDoc", DocRequest(name))
                    /\ invocations' = invocations + 1
                    /\ requests' = requests + 1
                    /\ transformCalls' = 0
                    /\ transport' = NoOutcome
                    /\ pc' = "awaiting"
                    /\ UNCHANGED settlements
    /\ UNCHANGED appVars
    /\ UNCHANGED <<upload, calls>>

\* getLastDoc resumes after awaiting getDocList: a rejection propagates; a
\* non-empty list makes it call getDoc with the name of the first entry,
\* which issues the second request; otherwise it returns {}
GetLastDocAfterList ==
    /\ op # NoOperation /\ op.name = "FrappeDB.getLastDoc" /\ op.phase = "list"
    /\ pc = "done"
    /\ LET awaited == settlements[Len(settlements)]
           list == awaited[2]
       IN  IF awaited[1] = "rejected"
           THEN /\ op' = [op EXCEPT !.phase = "over", !.result = << awaited >>]
                /\ UNCHANGED execVars
           ELSE IF LengthThrows(list)
           THEN /\ op' = [op EXCEPT !.phase = "over",
                                    !.result = << Rejected(PlainErr("TypeError")) >>]
                /\ UNCHANGED execVars
           ELSE IF NonEmpty(list)
           THEN LET name == GetProp(list[2][1], "name")
                IN  /\ op' = [op EXCEPT !.phase = "doc", !.request = DocRequest(name),
                                        !.log = Append(@, DocRequest(name))]
                    /\ opts' = OptionsOf("FrappeDB.getDoc", DocRequest(name))
                    /\ invocations' = invocations + 1
                    /\ requests' = requests + 1
                    /\ transformCalls' = 0
                    /\ transport' = NoOutcome
                    /\ pc' = "awaiting"
                    /\ UNCHANGED settlements
           ELSE /\ op' = [op EXCEPT !.phase = "over",
                                    !.result = << Resolved(JObj(EmptyObj)) >>]
                /\ UNCHANGED execVars
    /\ UNCHANGED appVars
    /\ UNCHANGED <<upload, calls>>

\* the promise getDoc returned settles: getLastDoc settles with the same
GetLastDocAfterDoc ==
    /\ op # NoOperation /\ op.name = "FrappeDB.getLastDoc" /\ op.phase = "doc"
    /\ pc = "done"
    /\ op' = [op EXCEPT !.phase = "over", !.result = << settlements[Len(settlements)] >>]
    /\ UNCHANGED execVars
    /\ UNCHANGED appVars
    /\ UNCHANGED <<upload, calls>>

LastDocNext ==
    \/ \E a \in GetLastDocArgs : GetLastDocCall(a)
    \/ \E outcome \in LastDocOutcomes : TransportSettles(outcome)
    \/ ResumeTry
    \/ ResumeCatch
    \/ GetLastDocAfterList
    \/ GetLastDocAfterDoc

LastDocSpec == Init /\ [][LastDocNext]_vars

(***************************************************************************)
(* Concurrent invocations of handleRequest.  Each invocation has its own   *)
(* parameters and locals (options, response or error); calls is the        *)
(* sequence of the invocations made, in the order they were made.          *)
(***************************************************************************)
\* the options and transport outcomes the concurrent invocations draw from
ConcurrentOptions ==
    { [ errorMessage |-> JUndefined, transformResponse |-> "default",
        config |-> [method |-> "GET", url |-> "/api/resource/Task/TASK-001"] ],
      [ errorMessage |-> JStr("There was an error while fetching the document."),
        transformResponse |-> "data",
        config |-> [method |-> "GET", url |-> "/api/resource/Task/TASK-001"] ],
      [ errorMessage |-> JUndefined, transformResponse |-> "throws",
        config |-> [method |-> "GET", url |-> "/api/resource/Task/TASK-001"] ] }

ConcurrentOutcomes ==
    { [ok |-> TRUE, response |-> Response(200, "OK", JObj("data" :> JStr("doc"))),
       error |-> JUndefined],
      [ok |-> TRUE, response |-> Response(200, "OK", JObj("message" :> JStr("pong"))),
       error |-> JUndefined],
      [ok |-> FALSE, response |-> JUndefined,
       error |-> AxiosErr("ERR_BAD_REQUEST",
                          Response(404, "Not Found", JObj("message" :> JStr("not found"))))],
      [ok |-> FALSE, response |-> JUndefined, error |-> AxiosErr("ERR_NETWORK", JUndefined)] }

\* a caller invokes handleRequest while other invocations may be in flight
ConcurrentInvoke(o) ==
    /\ Len(calls) < MaxCalls
    /\ calls' = Append(calls, [ opts |-> o, pc |-> "awaiting", transport |-> NoOutcome,
                                settlements |-> <<>> ])
    /\ requests' = requests + 1
    /\ invocations' = invocations + 1
    /\ UNCHANGED <<pc, opts, transport, transformCalls, settlements>>
    /\ UNCHANGED appVars
    /\ UNCHANGED <<op, upload>>

\* the transport settles the request of invocation i
ConcurrentSettles(i, outcome) ==
    /\ i \in DOMAIN calls
    /\ calls[i].pc = "awaiting"
    /\ calls' = [calls EXCEPT ![i].transport = outcome, ![i].pc = "resumed"]
    /\ UNCHANGED execVars
    /\ UNCHANGED appVars
    /\ UNCHANGED <<op, upload>>

\* ConcurrentResume with the response kept in a variable the invocations
\* share: each resumes with what the latest invocation's request settled with
ConcurrentResumeShared(i) ==
    /\ i \in DOMAIN calls
    /\ calls[i].pc = "resumed"
    /\ LET mine == calls[i]
           latest == IF calls[Len(calls)].pc = "awaiting" THEN mine.transport
                     ELSE calls[Len(calls)].transport
           r == ApplyTransform(mine.opts.transformResponse,
                               GetProp(latest.response, "data"))
           settlement ==
               IF latest.ok
               THEN (IF r.threw THEN Rejected(handleRequestCatch(mine.opts, r.value))
                     ELSE Resolved(handleRequestReturn(latest.response, r)))
               ELSE Rejected(handleRequestCatch(mine.opts, latest.error))
       IN  calls' = [calls EXCEPT ![i].settlements = Append(@, settlement),
                                  ![i].pc = "done"]
    /\ UNCHANGED execVars
    /\ UNCHANGED appVars
    /\ UNCHANGED <<op, upload>>

\* invocation i resumes after its await: the try block with its own
\* response, or the catch block with its own error
ConcurrentResume(i) ==
    /\ i \in DOMAIN calls
    /\ calls[i].pc = "resumed"
    /\ LET mine == calls[i]
           r == ApplyTransform(mine.opts.transformResponse,
                               GetProp(mine.transport.response, "data"))
           settlement ==
               IF mine.transport.ok
               THEN (IF r.threw THEN Rejected(handleRequestCatch(mine.opts, r.value))
                     ELSE Resolved(handleRequestReturn(mine.transport.response, r)))
               ELSE Rejected(handleRequestCatch(mine.opts, mine.transport.error))
       IN  calls' = [calls EXCEPT ![i].settlements = Append(@, settlement),
                                  ![i].pc = "done"]
    /\ UNCHANGED execVars
    /\ UNCHANGED appVars
    /\ UNCHANGED <<op, upload>>

ConcurrentNext ==
    \/ \E o \in ConcurrentOptions : ConcurrentInvoke(o)
    \/ \E i \in 1..MaxCalls : \E outcome \in ConcurrentOutcomes : ConcurrentSettles(i, outcome)
    \/ \E i \in 1..MaxCalls : ConcurrentResume(i)

ConcurrentSpec == Init /\ [][ConcurrentNext]_vars

(***************************************************************************)
(* Properties of handleRequest, checked under Spec.                        *)
(***************************************************************************)
\* the invocation has completed
Done == pc = "done"

\* what the transport failed with, the response it carries and its body
FailedWith == transport.error
FailureResponse == GetProp(FailedWith, "response")
FailureBody == OptProp(FailureResponse, "data")

\* the transport failed with an AxiosError that carries a response
FailedWithResponse ==
    /\ Done /\ ~transport.ok
    /\ isAxiosError(FailedWith)
    /\ FailureResponse # JUndefined

\* the transport failed with an AxiosError that carries no response
FailedWithoutResponse ==
    /\ Done /\ ~transport.ok
    /\ isAxiosError(FailedWith)
    /\ FailureResponse = JUndefined

\* the body has a (non-null) value for the field k
BodyHas(k) == OptProp(FailureBody, k) \notin {JUndefined, JNull}

\* the one value the promise was rejected with, when that is how it ended
RaisedError == settlements[1][2]
RejectedOnce == Len(settlements) = 1 /\ settlements[1][1] = "rejected"

\* v is a Standard Error Record: an object with the four mandatory fields
IsStandardErrorRecord(v) ==
    /\ v[1] = "object"
    /\ {"httpStatus", "httpStatusText", "message", "exception"} \subseteq DOMAIN v[2]

\* C1: after a successful response the transform has been invoked exactly
\* once, and when it returned, the promise is resolved exactly once, with the
\* value the caller's transform (the identity when none was supplied) gives
\* for the response body; the raw body is returned only where the transform
\* itself returns it.
C1_ReturnsTransformedBody ==
    (Done /\ transport.ok) =>
        LET body == GetProp(transport.response, "data")
            r == ApplyTransform(opts.transformResponse, body)
        IN  /\ transformCalls = 1
            /\ ~r.threw => settlements = <<Resolved(r.value)>>
            /\ (~r.threw /\ r.value # body) => settlements # <<Resolved(body)>>

C1_Witness ==
    /\ Done /\ transport.ok
    /\ opts.transformResponse = "data"
    /\ GetProp(transport.response, "data") = JObj("data" :> JStr("doc"))
    /\ settlements = <<Resolved(JStr("doc"))>>

\* C2: for a failure that carries a response, the raised error has
\* httpStatus = the response's status, httpStatusText = its status text, and
\* message = the body's message when the body has one, otherwise the
\* caller's errorMessage, or the default message when the caller gave none.
C2_StatusAndMessage ==
    FailedWithResponse =>
        /\ RejectedOnce
        /\ GetProp(RaisedError, "httpStatus") = GetProp(FailureResponse, "status")
        /\ GetProp(RaisedError, "httpStatusText") = GetProp(FailureResponse, "statusText")
        /\ GetProp(RaisedError, "message") =
              IF BodyHas("message") THEN GetProp(FailureBody, "message")
              ELSE IF opts.errorMessage # JUndefined THEN opts.errorMessage
              ELSE JStr("An error occurred while processing the request.")

C2_Witness ==
    /\ FailedWithResponse
    /\ GetProp(FailureResponse, "status") = JNum(417)
    /\ ~BodyHas("message")
    /\ opts.errorMessage = JStr("There was an error while fetching the document.")
    /\ RejectedOnce
    /\ GetProp(RaisedError, "httpStatus") = JNum(417)
    /\ GetProp(RaisedError, "message") = JStr("There was an error while fetching the document.")

\* the 404 of the scenario: body {exc_type: "DoesNotExistError", message: "not found"}
NotFoundFailure ==
    AxiosErr("ERR_BAD_REQUEST",
             Response(404, "Not Found",
                      JObj("exc_type" :> JStr("DoesNotExistError")
                           @@ "message" :> JStr("not found"))))

\* C3: for a failure that carries a response, the raised error's exception
\* is the body's exception if it has one, else the body's exc_type if it has
\* one, else "UnknownException"; the 404 with body {exc_type:
\* "DoesNotExistError", message: "not found"} gives httpStatus 404, exception
\* "DoesNotExistError" and message "not found".
C3_ExceptionField ==
    /\ FailedWithResponse =>
          /\ RejectedOnce
          /\ GetProp(RaisedError, "exception") =
                IF BodyHas("exception") THEN GetProp(FailureBody, "exception")
                ELSE IF BodyHas("exc_type") THEN GetProp(FailureBody, "exc_type")
                ELSE JStr("UnknownException")
    /\ (Done /\ ~transport.ok /\ FailedWith = NotFoundFailure) =>
          /\ RejectedOnce
          /\ GetProp(RaisedError, "httpStatus") = JNum(404)
          /\ GetProp(RaisedError, "exception") = JStr("DoesNotExistError")
          /\ GetProp(RaisedError, "message") = JStr("not found")

C3_Witness ==
    /\ Done /\ ~transport.ok /\ FailedWith = NotFoundFailure
    /\ RejectedOnce
    /\ GetProp(RaisedError, "exception") = JStr("DoesNotExistError")

\* C4: for a failure with no response at all, handleRequest re-raises the
\* original failure object unchanged, and raises no record with an httpStatus
\* or httpStatusText.
C4_NetworkFailureRethrown ==
    FailedWithoutResponse =>
        /\ settlements = <<Rejected(FailedWith)>>
        /\ GetProp(RaisedError, "httpStatus") = JUndefined
        /\ GetProp(RaisedError, "httpStatusText") = JUndefined

\* a completed invocation that resolved with the transformed success value
ResolvedWithTransformed ==
    /\ transport.ok
    /\ LET r == ApplyTransform(opts.transformResponse, GetProp(transport.response, "data"))
       IN  ~r.threw /\ settlements = <<Resolved(r.value)>>

\* C5 as stated: every completed invocation ends either resolved with the
\* transformed value or rejected with one Standard Error Record, whatever
\* the transport outcome.
C5_ValueOrErrorRecord ==
    Done =>
        /\ Len(settlements) = 1
        /\ \/ ResolvedWithTransformed
           \/ RejectedOnce /\ IsStandardErrorRecord(RaisedError)

\* the failure the catch block received: the transport's, or the one the
\* transform threw after a successful response
CaughtError ==
    IF transport.ok
    THEN ApplyTransform(opts.transformResponse, GetProp(transport.response, "data")).value
    ELSE FailedWith

\* C5: every completed invocation ends in exactly one of: resolved with the
\* transformed value; rejected with one Standard Error Record, when the
\* failure is a transport (Axios) error; rejected with the original failure
\* value itself, when the failure is not a transport error.
C5_ExactlyOneOutcome ==
    Done =>
        /\ Len(settlements) = 1
        /\ \/ ResolvedWithTransformed
           \/ /\ ~ResolvedWithTransformed
              /\ RejectedOnce
              /\ IF isAxiosError(CaughtError)
                 THEN IsStandardErrorRecord(RaisedError)
                 ELSE RaisedError = CaughtError

C5_Witness ==
    /\ Done /\ ~transport.ok
    /\ FailedWith = PlainErr("TypeError")
    /\ settlements = <<Rejected(PlainErr("TypeError"))>>

\* C6: every invocation of handleRequest issues exactly one axios.request:
\* the requests issued equal the invocations started at every moment, also
\* after a failure, which ends the invocation with one rejection.
C6_OneRequestPerInvocation ==
    /\ requests = invocations
    /\ (Done /\ ~transport.ok) => RejectedOnce

C6_Witness ==
    /\ Done /\ ~transport.ok
    /\ invocations = 2
    /\ requests = 2
    /\ RejectedOnce

(***************************************************************************)
(* Properties of the header assembly, checked under HeaderSpec (every      *)
(* argument list of getRequestHeaders) and AppSpec (a FrappeApp and the    *)
(* requests sent through it).                                              *)
(***************************************************************************)
\* getRequestHeaders has been evaluated and returned a header set
HeadersReturned == hdr.called /\ ~hdr.result.threw

\* the entries of a customHeaders argument
CustomEntries(customHeaders) == SpreadProps(Coalesce(customHeaders, JObj(EmptyHeaders)))

\* the FrappeApp sends a token: useToken is set and a supplier was given
AppUsesToken ==
    /\ app.constructed
    /\ app.useToken = JBool(TRUE)
    /\ app.token = TokenSupplier

\* C7: every request sent through a component of a FrappeApp that uses token
\* authentication (and whose custom headers set no Authorization of their
\* own) carries the token the supplier returns at the time of the request,
\* also when that value has changed since an earlier request or since the
\* construction of the FrappeApp.
C7_TokenReadOnEveryRequest ==
    (AppUsesToken /\ sent.component # "none"
       /\ "Authorization" \notin DOMAIN CustomEntries(app.customHeaders)) =>
        /\ "Authorization" \in DOMAIN sent.headers
        /\ sent.headers["Authorization"] = app.tokenType[2] \o " " \o sent.token

\* C8: getRequestHeaders itself sets Authorization if and only if useToken is
\* true and a token type and a token supplier are both given, and the value
\* is then "<tokenType> <what the supplier returns>"; with type Bearer and a
\* supplier returning "abc" it is "Bearer abc".
C8_AuthorizationIffTokenAuth ==
    HeadersReturned =>
        LET a == hdr.args
            given == /\ a.useToken = JBool(TRUE)
                     /\ a.tokenType # JUndefined
                     /\ a.token # JUndefined
            set == hdr.result.assembled
        IN  /\ ("Authorization" \in DOMAIN set) <=> given
            /\ given => set["Authorization"] = a.tokenType[2] \o " " \o hdr.token
            /\ (given /\ a.tokenType = JStr("Bearer") /\ hdr.token = "abc")
                  => set["Authorization"] = "Bearer abc"
            /\ "Authorization" \notin DOMAIN CustomEntries(a.customHeaders)
                  => /\ ("Authorization" \in DOMAIN hdr.result.headers) <=> given
                     /\ given => hdr.result.headers["Authorization"] = set["Authorization"]

C8_Witness ==
    /\ HeadersReturned
    /\ hdr.args.useToken = JBool(TRUE)
    /\ hdr.args.tokenType = JStr("Bearer")
    /\ hdr.args.token = TokenSupplier
    /\ hdr.token = "abc"
    /\ "Authorization" \in DOMAIN hdr.result.headers
    /\ hdr.result.headers["Authorization"] = "Bearer abc"

\* useToken is false in the last evaluation (passed as false, or left out)
UseTokenFalse == hdr.args.useToken \in {JBool(FALSE), JUndefined}

\* C9 as stated: with useToken false the returned header set has no
\* Authorization header, whatever the other arguments, custom headers included.
C9_NoAuthorizationWithoutUseToken ==
    (HeadersReturned /\ UseTokenFalse) =>
        "Authorization" \notin DOMAIN hdr.result.headers

\* C9: with useToken false, whatever the token type, the token supplier and
\* appURL, getRequestHeaders adds no Authorization header of its own: the
\* returned header set has one only if customHeaders has one, and then with
\* the custom value.
C9_NoAuthorizationUnlessCustom ==
    (HeadersReturned /\ UseTokenFalse) =>
        LET custom == CustomEntries(hdr.args.customHeaders)
        IN  /\ "Authorization" \notin DOMAIN hdr.result.assembled
            /\ ("Authorization" \in DOMAIN hdr.result.headers)
                  <=> ("Authorization" \in DOMAIN custom)
            /\ "Authorization" \in DOMAIN custom
                  => hdr.result.headers["Authorization"] = custom["Authorization"]

C9_Witness ==
    /\ HeadersReturned
    /\ hdr.args.useToken = JBool(FALSE)
    /\ hdr.args.tokenType = JStr("Bearer")
    /\ hdr.args.token = TokenSupplier
    /\ hdr.args.customHeaders = JObj("X-Custom" :> "v")
    /\ "Authorization" \notin DOMAIN hdr.result.headers

\* every entry of custom, but for the names in except, is in headers with
\* the custom value
CustomWins(custom, headers, except) ==
    \A k \in (DOMAIN custom) \ except : k \in DOMAIN headers /\ headers[k] = custom[k]

\* C10 as stated: every custom header has the custom value in the result of
\* getRequestHeaders, in the client built by getAxiosClient and in the
\* per-request headers of uploadFile.
C10_CustomHeadersOverrideAll ==
    /\ HeadersReturned =>
          CustomWins(CustomEntries(hdr.args.customHeaders), hdr.result.headers, {})
    /\ app.constructed =>
          CustomWins(CustomEntries(app.customHeaders), app.axios.headers, {})
    /\ sent.component = "file" =>
          CustomWins(CustomEntries(app.customHeaders), sent.configHeaders, {})

\* C10: every custom header has the custom value in the result of
\* getRequestHeaders; in the client built by getAxiosClient and in the
\* per-request headers of uploadFile every custom header but Content-Type
\* has the custom value, and Content-Type is always "application/json;
\* charset=utf-8" in the client and "multipart/form-data" in the upload.
C10_CustomHeadersOverrideButContentType ==
    /\ HeadersReturned =>
          CustomWins(CustomEntries(hdr.args.customHeaders), hdr.result.headers, {})
    /\ app.constructed =>
          /\ CustomWins(CustomEntries(app.customHeaders), app.axios.headers, {"Content-Type"})
          /\ app.axios.headers["Content-Type"] = "application/json; charset=utf-8"
    /\ sent.component = "file" =>
          /\ CustomWins(CustomEntries(app.customHeaders), sent.configHeaders, {"Content-Type"})
          /\ sent.configHeaders["Content-Type"] = "multipart/form-data"

C10_Witness ==
    /\ app.constructed
    /\ app.customHeaders = JObj("Accept" :> "text/html" @@ "X-Frappe-Site-Name" :> "custom.site")
    /\ env.browser
    /\ app.axios.headers["Accept"] = "text/html"
    /\ sent.component = "file"
    /\ sent.configHeaders["Accept"] = "text/html"
    /\ sent.configHeaders["X-Frappe-Site-Name"] = "custom.site"
    /\ HeadersReturned
    /\ hdr.result.headers["Accept"] = "text/html"

(***************************************************************************)
(* The priority of the fields of the raised error, checked under Spec.     *)
(***************************************************************************)
\* the fields handleRequest sets itself, after spreading the body
ExplicitFields == {"httpStatus", "httpStatusText", "message", "exception", "_server_messages"}

\* C11 as stated: every field the failure body supplies is in the raised
\* error with the body's value; the transport status, the fallback message
\* and the sentinel only fill fields the body does not supply.
C11_BodyFieldsFirst ==
    FailedWithResponse =>
        /\ RejectedOnce
        /\ \A k \in DOMAIN SpreadProps(FailureBody) :
              GetProp(RaisedError, k) = SpreadProps(FailureBody)[k]

\* C11: httpStatus and httpStatusText are always the transport's status code
\* and status text, also when the body has fields of these names; message,
\* exception and _server_messages have the body's value when the body's
\* value is neither absent nor null, and otherwise the fallback message,
\* the body's exc_type or else the sentinel, and the empty string; every
\* other field the body supplies has the body's value.
C11_FieldPriority ==
    FailedWithResponse =>
        LET body == SpreadProps(FailureBody)
        IN  /\ RejectedOnce
            /\ GetProp(RaisedError, "httpStatus") = GetProp(FailureResponse, "status")
            /\ GetProp(RaisedError, "httpStatusText") = GetProp(FailureResponse, "statusText")
            /\ \A k \in {"message", "exception", "_server_messages"} :
                  BodyHas(k) => GetProp(RaisedError, k) = body[k]
            /\ ~BodyHas("message") => GetProp(RaisedError, "message") = errorMessageOf(opts)
            /\ ~BodyHas("exception") =>
                  GetProp(RaisedError, "exception") =
                     IF BodyHas("exc_type") THEN body["exc_type"] ELSE JStr("UnknownException")
            /\ ~BodyHas("_server_messages") =>
                  GetProp(RaisedError, "_server_messages") = JStr("")
            /\ \A k \in (DOMAIN body) \ ExplicitFields : GetProp(RaisedError, k) = body[k]
            /\ DOMAIN RaisedError[2] = ExplicitFields \cup DOMAIN body

C11_Witness ==
    /\ FailedWithResponse
    /\ GetProp(FailureBody, "httpStatus") = JNum(200)
    /\ GetProp(FailureResponse, "status") = JNum(404)
    /\ RejectedOnce
    /\ GetProp(RaisedError, "httpStatus") = JNum(404)
    /\ GetProp(RaisedError, "message") = JStr("not found")

(***************************************************************************)
(* Properties of the operations of the SDK, checked under OpSpec.          *)
(***************************************************************************)
\* an operation was called and its promise has settled
OperationDone == op # NoOperation /\ Done

\* C12: for a failure response, every operation raises a Standard Error
\* Record whose message is the body's message, else the operation's fallback,
\* and whose exception is the body's exception, else its exc_type, else the
\* unknown-exception sentinel, whichever operation was called.
C12_SameErrorRule ==
    (OperationDone /\ FailedWithResponse) =>
        /\ RejectedOnce
        /\ IsStandardErrorRecord(RaisedError)
        /\ GetProp(RaisedError, "message") =
              (IF BodyHas("message") THEN GetProp(FailureBody, "message")
               ELSE Operation.errorMessage)
        /\ GetProp(RaisedError, "exception") =
              (IF BodyHas("exception") THEN GetProp(FailureBody, "exception")
               ELSE IF BodyHas("exc_type") THEN GetProp(FailureBody, "exc_type")
               ELSE JStr("UnknownException"))

\* C13: an operation that calls axios itself and fails with no response
\* obtained rejects with the original failure object, unmodified.
C13_NoResponsePassedThrough ==
    (OperationDone /\ Operation.impl = "direct" /\ FailedWithoutResponse) =>
        /\ RejectedOnce
        /\ RaisedError = FailedWith

\* the successful response body is exactly {message: T}
MessageEnvelope ==
    /\ transport.ok
    /\ GetProp(transport.response, "data")[1] = "object"
    /\ DOMAIN GetProp(transport.response, "data")[2] = {"message"}

ResponseBody == GetProp(transport.response, "data")

UnwrappingOperations ==
    { "Permission.hasPermission", "Permission.getDocPermissions",
      "FrappeDB.getCount", "FrappeFileUpload.uploadFile" }

\* C14: for a successful response with body {message: T}, hasPermission,
\* getDocPermissions, getCount and uploadFile (built on handleRequest)
\* resolve to T.
C14_UnwrapsMessage ==
    (OperationDone /\ op.name \in UnwrappingOperations /\ MessageEnvelope) =>
        settlements = << Resolved(GetProp(ResponseBody, "message")) >>

\* C15: for a successful response with body {message: M}, FrappeCall.get,
\* post, put and delete resolve to the complete body.
C15_ResolvesWholeBody ==
    (OperationDone /\ op.name \in DOMAIN FrappeCallOperations /\ MessageEnvelope) =>
        settlements = << Resolved(ResponseBody) >>

\* the value of the query parameter k in the request issued
QueryParam(k) ==
    LET p == op.request.params
    IN  IF p[1] = "URLSearchParams"
        THEN (IF k \in DOMAIN p[2] THEN JStr(p[2][k]) ELSE JUndefined)
        ELSE GetProp(p, k)

GetDocListExample ==
    JObj("filters" :> OpenFilters
         @@ "orderBy" :> JObj("field" :> JStr("creation") @@ "order" :> JStr("desc"))
         @@ "limit" :> JNum(10))

\* C16: getDocList issues a GET to /api/resource/<doctype> whose filters
\* parameter is the JSON encoding of args.filters, whose order_by is
\* "<field> <order>" with the order asc when omitted, and whose limit is
\* args.limit; the example of the documentation gives
\* filters=[["status","=","Open"]], order_by=creation desc, limit=10.
C16_GetDocListQuery ==
    (op.name \in {"FrappeDB.getDocList", "FrappeDB.getDocList (axios)"} /\ Truthy(op.args)) =>
        LET filters == GetProp(op.args, "filters")
            orderBy == GetProp(op.args, "orderBy")
        IN  /\ op.request.method = "GET"
            /\ op.request.url = "/api/resource/Task"
            /\ Truthy(filters) => QueryParam("filters") = JStr(JSONStringify(filters))
            /\ Truthy(orderBy) =>
                  QueryParam("order_by") =
                     JStr(GetProp(orderBy, "field")[2] \o " " \o
                          (IF GetProp(orderBy, "order") = JUndefined THEN "asc"
                           ELSE GetProp(orderBy, "order")[2]))
            /\ QueryParam("limit") = GetProp(op.args, "limit")
            /\ op.args = GetDocListExample =>
                  /\ QueryParam("filters") = JStr("[[\"status\",\"=\",\"Open\"]]")
                  /\ QueryParam("order_by") = JStr("creation desc")
                  /\ QueryParam("limit") = JNum(10)

C16_Witness ==
    /\ op.name = "FrappeDB.getDocList"
    /\ op.args = GetDocListExample
    /\ pc = "awaiting"
    /\ requests = 1
    /\ QueryParam("filters") = JStr("[[\"status\",\"=\",\"Open\"]]")
    /\ QueryParam("order_by") = JStr("creation desc")

QueryOperations ==
    {"FrappeCall.get", "FrappeCall.delete", "FrappeClient.get", "FrappeClient.delete"}

\* C17: every operation that places caller parameters in the query string
\* JSON-encodes each parameter whose value is an object or an array.
C17_NestedParamsJSONEncoded ==
    op.name \in QueryOperations =>
        \A k \in DOMAIN SpreadProps(op.args) :
            TypeofObject(SpreadProps(op.args)[k]) =>
                QueryParam(k) = JStr(JSONStringify(SpreadProps(op.args)[k]))

(***************************************************************************)
(* Properties of uploadFile, checked under FormSpec and ProgressSpec.      *)
(***************************************************************************)
\* the argument k of the upload was given: it has a truthy value
Given(k) == Truthy(GetProp(upload.args, k))

\* the entries appended for otherData are the last ones of the form
OtherEntries == IF Given("otherData") THEN GetProp(upload.args, "otherData")[2] ELSE <<>>
FixedPart == SubSeq(upload.form, 1, Len(upload.form) - Len(OtherEntries))
OtherPart == SubSeq(upload.form, Len(upload.form) - Len(OtherEntries) + 1, Len(upload.form))

\* the entries of the fixed part of the form that have the name n
FixedNamed(n) == { i \in DOMAIN FixedPart : FixedPart[i].name = n }
HasField(n) == FixedNamed(n) # {}
FieldIs(n, v) == \A i \in FixedNamed(n) : FixedPart[i].value = v

\* C18: the form contains exactly: file when a file is given; is_private =
\* "1" iff isPrivate is set; folder and file_url iff given; doctype and
\* docname iff both are given; fieldname iff doctype, docname and fieldname
\* are all given; and after these one entry per key of otherData.
C18_FormFields ==
    (upload # NoUpload /\ upload.started) =>
        /\ Len(upload.form) >= Len(OtherEntries)
        /\ \A i \in DOMAIN FixedPart :
              /\ FixedPart[i].name \in {"file", "is_private", "folder", "file_url",
                                        "doctype", "docname", "fieldname"}
              /\ Cardinality(FixedNamed(FixedPart[i].name)) = 1
        /\ HasField("file") <=> Truthy(upload.file)
        /\ FieldIs("file", upload.file)
        /\ HasField("is_private") <=> Given("isPrivate")
        /\ FieldIs("is_private", JStr("1"))
        /\ \A k \in {"folder", "file_url"} :
              /\ HasField(k) <=> Given(k)
              /\ FieldIs(k, GetProp(upload.args, k))
        /\ \A k \in {"doctype", "docname"} :
              /\ HasField(k) <=> (Given("doctype") /\ Given("docname"))
              /\ FieldIs(k, GetProp(upload.args, k))
        /\ HasField("fieldname") <=> (Given("doctype") /\ Given("docname") /\ Given("fieldname"))
        /\ FieldIs("fieldname", GetProp(upload.args, "fieldname"))
        /\ \A i \in DOMAIN OtherEntries :
              /\ OtherPart[i].name = OtherEntries[i][1]
              /\ OtherPart[i].value = OtherEntries[i][2]

C18_Witness ==
    /\ upload # NoUpload
    /\ upload.started
    /\ Given("doctype") /\ ~Given("docname") /\ Given("fieldname")
    /\ Given("isPrivate")
    /\ Len(OtherEntries) = 2
    /\ Truthy(upload.file)
    /\ Len(upload.form) = 4

\* the bytesUploaded and totalBytes arguments of the calls of onProgress
BytesUploaded(i) == upload.progressCalls[i][1]
TotalBytesArg(i) == upload.progressCalls[i][2]

UploadDone == upload # NoUpload /\ upload.started /\ Done

\* C19 as stated: the callback is called once per progress event, in order,
\* with non-decreasing bytesUploaded, and when the call is over the final
\* call has had bytesUploaded equal to totalBytes.
C19_ProgressCulminates ==
    (UploadDone /\ Truthy(upload.onProgress)) =>
        /\ Len(upload.progressCalls) = Len(upload.events)
        /\ \A i \in DOMAIN upload.progressCalls :
              i > 1 => BytesUploaded(i)[2] >= BytesUploaded(i - 1)[2]
        /\ upload.progressCalls # <<>>
        /\ BytesUploaded(Len(upload.progressCalls)) = TotalBytesArg(Len(upload.progressCalls))

\* C19: the callback is called once per progress event of the transport, in
\* order, with that event's loaded and total values and the event itself;
\* so bytesUploaded never decreases, and the final call has bytesUploaded
\* equal to totalBytes exactly when the last progress event of the transport
\* reports loaded equal to total.  Without a callback nothing is called.
C19_ProgressForwarded ==
    (upload # NoUpload /\ upload.started) =>
        IF Truthy(upload.onProgress)
        THEN /\ Len(upload.progressCalls) = Len(upload.events)
             /\ \A i \in DOMAIN upload.progressCalls :
                   /\ BytesUploaded(i) = GetProp(upload.events[i], "loaded")
                   /\ TotalBytesArg(i) = GetProp(upload.events[i], "total")
                   /\ upload.progressCalls[i][3] = upload.events[i]
                   /\ i > 1 => BytesUploaded(i)[2] >= BytesUploaded(i - 1)[2]
        ELSE upload.progressCalls = <<>>

C19_Witness ==
    /\ UploadDone
    /\ Truthy(upload.onProgress)
    /\ Len(upload.events) = MaxEvents
    /\ Len(upload.progressCalls) = MaxEvents
    /\ BytesUploaded(1) = JNum(0)
    /\ BytesUploaded(MaxEvents) = JNum(TotalBytes)
    /\ TotalBytesArg(MaxEvents) = JNum(TotalBytes)
    /\ settlements = << Resolved(JStr("file")) >>

(***************************************************************************)
(* Independence of concurrent invocations, checked under ConcurrentSpec.   *)
(***************************************************************************)
\* what one invocation alone settles with, given its options and what its
\* own request settled with
SettlementAlone(o, outcome) ==
    IF outcome.ok
    THEN LET r == ApplyTransform(o.transformResponse, GetProp(outcome.response, "data"))
         IN  IF r.threw THEN Rejected(handleRequestCatch(o, r.value))
             ELSE Resolved(handleRequestReturn(outcome.response, r))
    ELSE Rejected(handleRequestCatch(o, outcome.error))

\* C20: in every interleaving of the invocations in flight, each invocation
\* settles exactly once, with what it would settle with alone given its own
\* options and its own transport outcome; its options and its outcome are
\* those it was given, whatever the other invocations do; and every
\* invocation issues one request of its own.
C20_ConcurrentCallsIndependent ==
    /\ requests = Len(calls)
    /\ \A i \in DOMAIN calls :
          /\ calls[i].opts \in ConcurrentOptions
          /\ calls[i].pc = "awaiting" =>
                calls[i].transport = NoOutcome /\ calls[i].settlements = <<>>
          /\ calls[i].pc = "resumed" => calls[i].settlements = <<>>
          /\ calls[i].pc = "done" =>
                calls[i].settlements = << SettlementAlone(calls[i].opts, calls[i].transport) >>

\* the second invocation, made while the first was in flight, has settled
\* with its own error while the first, whose response has arrived, has not
\* yet resumed
C20_Witness ==
    /\ Len(calls) >= 2
    /\ calls[1].pc = "resumed" /\ calls[2].pc = "done"
    /\ calls[1].transport.ok /\ ~calls[2].transport.ok
    /\ calls[1].opts # calls[2].opts
    /\ calls[1].settlements = <<>>
    /\ calls[2].settlements[1][1] = "rejected"
    /\ GetProp(calls[2].settlements[1][2], "httpStatus") = JNum(404)

(***************************************************************************)
(* The requests of getLoggedInUser and uploadFile, checked under OpSpec.   *)
(***************************************************************************)
OperationCalled == op # NoOperation

NoArguments == JArr(<< JUndefined, JUndefined >>)

\* C21: getLoggedInUser called with no arguments requests
\* GET /api/method/frappe.auth.get_logged_user and resolves to the message
\* field of the response body.
C21_GetLoggedInUserNoArguments ==
    (OperationCalled /\ op.name = "FrappeAuth.getLoggedInUser" /\ op.args = NoArguments) =>
        /\ AxiosMethod(op.request) = "GET"
        /\ op.request.url = "/api/method/frappe.auth.get_logged_user"
        /\ (Done /\ transport.ok /\ ResponseBody \notin {JUndefined, JNull, JStr("")}) =>
              settlements = << Resolved(GetProp(ResponseBody, "message")) >>

\* C26: uploadFile sends exactly one request, with method POST, to
\* /api/method/<apiPath> (upload_file by default), with the multipart form
\* as its body, in both implementations.
C26_UploadIsOnePost ==
    (OperationCalled /\ op.name \in UploadOperations) =>
        /\ requests = 1
        /\ AxiosMethod(op.request) = "POST"
        /\ op.request.url = (IF op.args = JUndefined THEN "/api/method/upload_file"
                             ELSE "/api/method/" \o op.args[2])
        /\ op.request.data = FormData(buildFormData(UploadedFile, UploadedFileArgs))

\* the withCredentials value the caller passed for the request, if any
CallerWithCredentials ==
    IF op.name = "FrappeAuth.getLoggedInUser" THEN op.args[2][2] ELSE JUndefined

\* C27: the client is configured with withCredentials = true, and every
\* request of an operation is sent with withCredentials = true unless the
\* caller passed another value for that request.
C27_WithCredentials ==
    OperationCalled =>
        /\ getAxiosClient(JStr("https://test.example.com"), JUndefined, JUndefined,
                          JUndefined, JUndefined).withCredentials
        /\ AxiosWithCredentials(op.request) = Coalesce(CallerWithCredentials, JBool(TRUE))

(***************************************************************************)
(* The browser-dependent headers, checked under HeaderSpec, and the token  *)
(* of an upload, checked under AppSpec.                                    *)
(***************************************************************************)
BrowserHeaders == {"X-Frappe-Site-Name", "X-Frappe-CSRF-Token"}

\* the headers of a returned set that do not depend on the context: those
\* the caller's custom headers name and all but the two browser headers
ContextFreeHeaders(headers, custom) ==
    [ k \in { n \in DOMAIN headers : n \notin BrowserHeaders \/ n \in DOMAIN custom } |->
        headers[k] ]

\* what the arguments alone determine: Accept, Content-Type, Authorization
\* when applicable, and the custom headers over them
ArgumentHeaders(a, token) ==
    CustomEntries(a.customHeaders)
    @@ (IF a.useToken = JBool(TRUE) /\ Truthy(a.tokenType) /\ Truthy(a.token)
        THEN "Authorization" :> (a.tokenType[2] \o " " \o token)
        ELSE EmptyHeaders)
    @@ ("Accept" :> "application/json"
        @@ "Content-Type" :> "application/json; charset=utf-8")

\* C22: outside a browser getRequestHeaders adds neither X-Frappe-Site-Name
\* nor X-Frappe-CSRF-Token, and the remaining headers are those the
\* arguments determine, the same set in a browser and outside one.
C22_SameHeadersOutsideBrowser ==
    hdr.called =>
        /\ ~env.browser => (DOMAIN hdr.result.assembled) \cap BrowserHeaders = {}
        /\ ~hdr.result.threw
        /\ ContextFreeHeaders(hdr.result.headers, CustomEntries(hdr.args.customHeaders))
              = ArgumentHeaders(hdr.args, hdr.token)

\* the appURL argument has the origin of the window
SameOrigin(appURL) ==
    Truthy(appURL) /\ ParseURL(appURL[2]).ok /\ ParseURL(appURL[2]).origin = WindowOrigin

\* C23: in a browser getRequestHeaders sets X-Frappe-Site-Name if and only
\* if appURL is absent or has the origin of the window; with no appURL the
\* value is window.location.hostname, and for an appURL of another origin
\* the header is not set.
C23_SiteNameIffSameOrigin ==
    (hdr.called /\ env.browser) =>
        LET appURL == hdr.args.appURL
            set == hdr.result.assembled
        IN  /\ ("X-Frappe-Site-Name" \in DOMAIN set) <=> (~Truthy(appURL) \/ SameOrigin(appURL))
            /\ ~Truthy(appURL) => set["X-Frappe-Site-Name"] = WindowHostname
            /\ SameOrigin(appURL) => set["X-Frappe-Site-Name"] = ParseURL(appURL[2]).hostname
            /\ (Truthy(appURL) /\ ParseURL(appURL[2]).ok /\ ~SameOrigin(appURL)) =>
                  /\ HeadersReturned
                  /\ "X-Frappe-Site-Name" \notin DOMAIN set

C23_Witness ==
    /\ HeadersReturned
    /\ env.browser
    /\ hdr.args.appURL = JStr("https://other.example.com")
    /\ hdr.args.customHeaders = JUndefined
    /\ "X-Frappe-Site-Name" \notin DOMAIN hdr.result.headers
    /\ "Accept" \in DOMAIN hdr.result.headers

\* C30: getRequestHeaders never throws because of the appURL value: for
\* every appURL string, parseable or not, in a browser and outside one, it
\* returns a header set.
C30_NeverThrowsOnAppURL ==
    hdr.called => ~hdr.result.threw

\* C29 as stated: with token auth enabled, the Authorization header of an
\* upload's per-request headers is "<tokenType> <value the supplier returns
\* during that call>".
C29_UploadReadsToken ==
    (AppUsesToken /\ sent.component = "file") =>
        /\ "Authorization" \in DOMAIN sent.configHeaders
        /\ sent.configHeaders["Authorization"] = app.tokenType[2] \o " " \o sent.token

\* C29: with token auth enabled, the Authorization header of an upload's
\* per-request headers is "<tokenType> <value the supplier returns during
\* that call>", also when that value has changed since the FrappeApp was
\* constructed, unless the custom headers of the FrappeApp contain an
\* Authorization header, which is then sent as given.
C29_UploadReadsTokenUnlessCustom ==
    (AppUsesToken /\ sent.component = "file") =>
        /\ "Authorization" \in DOMAIN sent.configHeaders
        /\ sent.configHeaders["Authorization"] =
              (IF "Authorization" \in DOMAIN CustomEntries(app.customHeaders)
               THEN CustomEntries(app.customHeaders)["Authorization"]
               ELSE app.tokenType[2] \o " " \o sent.token)
        /\ sent.headers["Authorization"] = sent.configHeaders["Authorization"]

C29_Witness ==
    /\ AppUsesToken
    /\ sent.component = "file"
    /\ app.customHeaders = JUndefined
    /\ "Authorization" \in DOMAIN app.axios.headers
    /\ app.axios.headers["Authorization"] = "Bearer abc"
    /\ sent.token = "xyz"
    /\ sent.configHeaders["Authorization"] = "Bearer xyz"

(***************************************************************************)
(* Properties of FrappeDB.getLastDoc, checked under LastDocSpec.           *)
(***************************************************************************)
LastDocCalled == op # NoOperation /\ op.name = "FrappeDB.getLastDoc"

\* what the list request and the get-document request settled with
ListSettled == Len(settlements) >= 1
DocSettled == Len(settlements) >= 2
FirstName == GetProp(settlements[1][2][2][1], "name")

\* C24: getLastDoc issues at most two requests, one after the other: first
\* the list request; only after it resolved with a non-empty list one GET for
\* the document named by the first entry, resolving to that document; on an
\* empty list it resolves to {} with no second request; when the list request
\* fails it rejects with the same error record and issues no second request.
C24_LastDocSequence ==
    LastDocCalled =>
        /\ requests <= 2
        /\ Len(op.log) = requests
        /\ requests - Len(settlements) <= 1
        /\ op.log[1].method = "GET" /\ op.log[1].url = "/api/resource/Task"
        /\ requests = 2 =>
              /\ ListSettled
              /\ settlements[1][1] = "resolved"
              /\ settlements[1][2][1] = "array"
              /\ Len(settlements[1][2][2]) > 0
              /\ op.log[2].method = "GET"
              /\ op.log[2].url = "/api/resource/Task/" \o FirstName[2]
        /\ (op.phase = "over" /\ settlements[1][1] = "rejected") =>
              /\ requests = 1
              /\ op.result = << settlements[1] >>
        /\ (op.phase = "over" /\ settlements[1] = Resolved(JArr(<<>>))) =>
              /\ requests = 1
              /\ op.result = << Resolved(JObj(EmptyObj)) >>
        /\ (op.phase # "list" /\ settlements[1][1] = "resolved"
                /\ settlements[1][2][1] = "array" /\ Len(settlements[1][2][2]) > 0) =>
              /\ requests = 2
              /\ op.phase = "over" =>
                    /\ DocSettled
                    /\ op.result = << settlements[2] >>

C24_Witness ==
    /\ LastDocCalled
    /\ op.phase = "over"
    /\ requests = 2
    /\ op.log[2].url = "/api/resource/Task/TASK-002"
    /\ op.result = << Resolved(JObj("name" :> JStr("TASK-002") @@ "subject" :> JStr("Fix"))) >>

\* C25: the list request of getLastDoc has limit 1 and fields ["name"], and
\* order_by "creation desc" unless the caller supplies orderBy, whose field
\* and order are then used; the caller's filters and orFilters are passed on.
C25_ListRequestQuery ==
    LastDocCalled =>
        LET q == op.log[1].params
            orderBy == GetProp(op.args, "orderBy")
            filters == GetProp(op.args, "filters")
            orFilters == GetProp(op.args, "orFilters")
        IN  /\ GetProp(q, "limit") = JNum(1)
            /\ GetProp(q, "fields") = JStr("[\"name\"]")
            /\ GetProp(q, "order_by") =
                  (IF orderBy = JUndefined THEN JStr("creation desc")
                   ELSE JStr(GetProp(orderBy, "field")[2] \o " " \o
                             (IF GetProp(orderBy, "order") = JUndefined THEN "asc"
                              ELSE GetProp(orderBy, "order")[2])))
            /\ GetProp(q, "filters") =
                  (IF filters = JUndefined THEN JUndefined ELSE JStr(JSONStringify(filters)))
            /\ GetProp(q, "or_filters") =
                  (IF orFilters = JUndefined THEN JUndefined
                   ELSE JStr(JSONStringify(orFilters)))

(***************************************************************************)
(* Failures that are not transport errors, checked under Spec.             *)
(***************************************************************************)
\* what the transform did with the body of the successful response
TransformOutcome == ApplyTransform(opts.transformResponse, GetProp(transport.response, "data"))

\* the catch block of a completed invocation caught something
CaughtSomething == Done /\ (transport.ok => TransformOutcome.threw)

\* the value it caught: what the transform threw, or what the transport
\* failed with
Caught == IF transport.ok THEN TransformOutcome.value ELSE FailedWith

\* C28: a failure caught inside handleRequest that is not an Axios error, in
\* particular what the caller's transformResponse throws after a successful
\* response, is the value the promise is rejected with, field for field; it
\* is no Standard Error Record, and no further request is issued.
C28_NonAxiosFailureRethrown ==
    (CaughtSomething /\ ~isAxiosError(Caught)) =>
        /\ RejectedOnce
        /\ RaisedError = Caught
        /\ ~IsStandardErrorRecord(RaisedError)
        /\ requests = invocations

C28_Witness ==
    /\ Done
    /\ transport.ok
    /\ opts.transformResponse = "throws"
    /\ transformCalls = 1
    /\ settlements = << Rejected(TransformError) >>
    /\ requests = invocations

====
